---- MODULE Spec2Model ----
(***************************************************************************)
(* Model of the kinematics engine of SailCPU/Leee                          *)
(* (src/human-interface/robotics/robot_kinematics.py): RobotKinematics     *)
(* (forward_kinematics, compute_jacobian, inverse_kinematics) and          *)
(* TrajectoryPlanner (plan_trajectory); and of its remote interface layer  *)
(* (src/human-interface/robotics/leee_robot.py): RobotInterface,           *)
(* RobotController and the module-level functions on the global            *)
(* controller; of the web dashboard's backend                              *)
(* (src/human-interface/web/app.py): the global robot_state and            *)
(* control_commands, the update and worker threads and the handlers; and   *)
(* of the pick-and-place example                                           *)
(* (src/development-tools/examples/robotics/pick_and_place_demo.py):       *)
(* PickAndPlaceDemo.                                                       *)
(*                                                                         *)
(* Dashboard.  A joint angle is a whole number of steps, PiSteps of them   *)
(* being pi; the noise of the update thread is one step either way or      *)
(* none.  Threads interleave between bytecode statements: the += of line   *)
(* 150 and the clip of line 151 are two steps.                             *)
(*                                                                         *)
(* Example.  A position is in twentieths of a metre.  What                 *)
(* inverse_kinematics returns for a target pose is left open (an array or  *)
(* None); the trajectory is planned by the model of plan_trajectory.       *)
(*                                                                         *)
(* Remote layer.  A Python dict is the sequence of its <<key, value>>      *)
(* pairs, a value returned to the caller is [type, items]; the robot       *)
(* server is the environment: it may refuse a connection or a send, break  *)
(* the connection during a receive, and answer any text of Responses.      *)
(*                                                                         *)
(* Numbers.  The code computes in float64; the model computes exactly, on  *)
(* the values where that is possible:                                      *)
(*  - an angle is <<q, e>>: q quarter turns (pi/2) plus e times the        *)
(*    perturbation epsilon of compute_jacobian.  cos and sin are exact on  *)
(*    quarter turns, and first order in epsilon (epsilon^2 = 0, the        *)
(*    truncation order of the central difference);                         *)
(*  - a pose entry is a dual number <<re, ep>> = re + ep*epsilon;          *)
(*  - a float array is [nan |-> BOOLEAN, v |-> values]: nan stands for an  *)
(*    array holding IEEE NaN, which every product and sum propagates;      *)
(*  - the trajectory planner computes in exact rationals: a coefficient   *)
(*    is <<num, den>>, a sample a number in base-99 digits, the base      *)
(*    being the number of steps of np.linspace(t0, tf, 100).              *)
(***************************************************************************)
EXTENDS Integers, Sequences, FiniteSets, TLC

(* ------------------------------------------------------------------ *)
(* Integer helpers                                                     *)
(* ------------------------------------------------------------------ *)
Abs(x) == IF x < 0 THEN -x ELSE x

Sign(x) == IF x < 0 THEN -1 ELSE IF x > 0 THEN 1 ELSE 0

RECURSIVE Gcd(_, _)
Gcd(a, b) == IF b = 0 THEN Abs(a) ELSE Gcd(Abs(b), Abs(a) % Abs(b))

(* ------------------------------------------------------------------ *)
(* np.cos / np.sin on quarter turns, first order in epsilon            *)
(* ------------------------------------------------------------------ *)
Cos4(q) == CASE q % 4 = 0 -> 1 [] q % 4 = 1 -> 0 [] q % 4 = 2 -> -1 [] OTHER -> 0

Sin4(q) == CASE q % 4 = 0 -> 0 [] q % 4 = 1 -> 1 [] q % 4 = 2 -> 0 [] OTHER -> -1

\* cos(q*pi/2 + e*eps) = cos(q) - e*eps*sin(q)
DCos(th) == <<Cos4(th[1]), -(th[2] * Sin4(th[1]))>>

\* sin(q*pi/2 + e*eps) = sin(q) + e*eps*cos(q)
DSin(th) == <<Sin4(th[1]), th[2] * Cos4(th[1])>>

(* dual numbers re + ep*eps *)
DNum(x) == <<x, 0>>

DAdd(x, y) == <<x[1] + y[1], x[2] + y[2]>>

DMul(x, y) == <<x[1] * y[1], x[1] * y[2] + x[2] * y[1]>>

DNeg(x) == <<-x[1], -x[2]>>

\* the 4x4 matrix with entries c(i, j), as a tuple of rows
Mat4(c(_, _)) ==
  << <<c(1, 1), c(1, 2), c(1, 3), c(1, 4)>>,
     <<c(2, 1), c(2, 2), c(2, 3), c(2, 4)>>,
     <<c(3, 1), c(3, 2), c(3, 3), c(3, 4)>>,
     <<c(4, 1), c(4, 2), c(4, 3), c(4, 4)>> >>

\* a @ b for 4x4 matrices of dual numbers
MatMul(A, B) ==
  LET c(i, j) == DAdd(DAdd(DMul(A[i][1], B[1][j]), DMul(A[i][2], B[2][j])),
                      DAdd(DMul(A[i][3], B[3][j]), DMul(A[i][4], B[4][j])))
  IN Mat4(c)

\* np.eye(4)
Eye4 ==
  LET c(i, j) == IF i = j THEN DNum(1) ELSE DNum(0)
  IN Mat4(c)

\* the real parts of a dual matrix
RePart(M) ==
  LET c(i, j) == M[i][j][1]
  IN Mat4(c)

\* the epsilon coefficients of a dual matrix
EpPart(M) ==
  LET c(i, j) == M[i][j][2]
  IN Mat4(c)

(* ------------------------------------------------------------------ *)
(* RobotKinematics.dh_transform                                        *)
(* ------------------------------------------------------------------ *)
\* variant: a third row that ignores the twist alpha
UntwistedRow(a, alpha, d, theta) ==
  << <<DCos(theta), DNeg(DMul(DSin(theta), DNum(Cos4(alpha)))),
       DMul(DSin(theta), DNum(Sin4(alpha))), DMul(DNum(a), DCos(theta))>>,
     <<DSin(theta), DMul(DCos(theta), DNum(Cos4(alpha))),
       DNeg(DMul(DCos(theta), DNum(Sin4(alpha)))), DMul(DNum(a), DSin(theta))>>,
     <<DNum(0), DNum(0), DNum(1), DNum(d)>>,
     <<DNum(0), DNum(0), DNum(0), DNum(1)>> >>

\* alpha in quarter turns, theta an angle <<q, e>>, a and d lengths
dh_transform(a, alpha, d, theta) ==
  LET ct == DCos(theta)
      st == DSin(theta)
      ca == DNum(Cos4(alpha))
      sa == DNum(Sin4(alpha))
  IN << <<ct, DNeg(DMul(st, ca)), DMul(st, sa), DMul(DNum(a), ct)>>,
        <<st, DMul(ct, ca), DNeg(DMul(ct, sa)), DMul(DNum(a), st)>>,
        <<DNum(0), sa, ca, DNum(d)>>,
        <<DNum(0), DNum(0), DNum(0), DNum(1)>> >>

(* ------------------------------------------------------------------ *)
(* Float arrays and poses                                              *)
(* ------------------------------------------------------------------ *)
\* a joint vector holding the angles v (quarter turns, no perturbation)
Vec(qs) == [nan |-> FALSE, v |-> [i \in 1..Len(qs) |-> <<qs[i], 0>>]]

\* a joint vector of n components, all NaN
NaNVec(n) == [nan |-> TRUE, v |-> [i \in 1..n |-> <<0, 0>>]]

\* np.zeros(n)
Zeros(n) == Vec([i \in 1..n |-> 0])

\* a pose all of whose entries are NaN
NaNPose == [nan |-> TRUE, m |-> Eye4]

Pose(M) == [nan |-> FALSE, m |-> M]

(* ------------------------------------------------------------------ *)
(* RobotKinematics.forward_kinematics                                  *)
(* ------------------------------------------------------------------ *)
\* variant: a guard that lets a longer vector through
ShorterOnly(joint_angles, n) == Len(joint_angles.v) < n

\* line 51: the guard of the ValueError
LengthMismatch(joint_angles, n) == Len(joint_angles.v) # n

RECURSIVE LeftProduct(_, _, _, _)
\* variant: each link transform multiplied in on the left
LeftProduct(dh, joint_angles, i, transform) ==
  IF i > Len(dh)
    THEN [raised |-> "none", m |-> transform, composed |-> i - 1]
    ELSE IF i > Len(joint_angles.v)
      THEN [raised |-> "IndexError", m |-> transform, composed |-> i - 1]
      ELSE LeftProduct(dh, joint_angles, i + 1,
             MatMul(dh_transform(dh[i][1], dh[i][2], dh[i][3],
                                 <<joint_angles.v[i][1] + dh[i][4],
                                   joint_angles.v[i][2]>>),
                    transform))

RECURSIVE FKLoop(_, _, _, _)
\* lines 56-59: the loop over enumerate(self.dh_params), from link i on;
\* joint_angles[i] beyond the end of the array raises IndexError
FKLoop(dh, joint_angles, i, transform) ==
  IF i > Len(dh)
    THEN [raised |-> "none", m |-> transform, composed |-> i - 1]
    ELSE IF i > Len(joint_angles.v)
      THEN [raised |-> "IndexError", m |-> transform, composed |-> i - 1]
      ELSE LET p == dh[i]
               theta == <<joint_angles.v[i][1] + p[4], joint_angles.v[i][2]>>
               link_transform == dh_transform(p[1], p[2], p[3], theta)
           IN FKLoop(dh, joint_angles, i + 1, MatMul(transform, link_transform))

\* the pose after the loop r over the links.  A NaN angle makes rows 0 and 1
\* of its link transform NaN, and the product with it makes every entry of
\* the pose NaN (0 * NaN = NaN).
FKResult(joint_angles, r) ==
  [raised |-> r.raised,
   pose |-> IF joint_angles.nan /\ r.composed > 0 THEN NaNPose ELSE Pose(r.m),
   composed |-> r.composed]

\* lines 41-61.  raised: the exception that leaves the call ("none" when it
\* returns); composed: the number of link transforms multiplied in.
forward_kinematics(dh, n, joint_angles) ==
  IF LengthMismatch(joint_angles, n)
    THEN [raised |-> "ValueError", pose |-> NaNPose, composed |-> 0]
    ELSE FKResult(joint_angles, FKLoop(dh, joint_angles, 1, Eye4))

(* ------------------------------------------------------------------ *)
(* The heap: numpy arrays are objects, names hold references           *)
(* ------------------------------------------------------------------ *)
\* the array the caller passes to the engine (joint_angles / initial_guess)
ArgAddr == <<0, "arg">>

\* the arrays a call of thread t allocates
LocalAddr(t) == {<<t, "zeros">>, <<t, "joint_angles">>,
                 <<t, "angles_plus">>, <<t, "angles_minus">>}

\* a cell no live array occupies
FreeCell == [nan |-> FALSE, v |-> <<>>]

\* variant: joint_angles = initial_guess, with no copy
AliasGuess(dst, src) == src

\* line 78, initial_guess.copy(): the reference held by joint_angles, a new
\* array at dst
CopyGuess(dst, src) == dst

\* variant: angles_plus = joint_angles, with no copy
AliasAngles(dst, src) == src

\* lines 129 and 134, joint_angles.copy(): the reference held by
\* angles_plus / angles_minus, a new array at dst
CopyAngles(dst, src) == dst

\* the heap after ref = src.copy(): the array at ref holds src's values
\* (nothing changes when ref is src itself)
StoreCopy(h, ref, src) == [h EXCEPT ![ref] = h[src]]

\* a[i] += k * epsilon, in place
Perturb(h, ref, i, k) ==
  [h EXCEPT ![ref].v[i] = <<h[ref].v[i][1], h[ref].v[i][2] + k>>]

(* ------------------------------------------------------------------ *)
(* RobotKinematics.compute_jacobian                                    *)
(* ------------------------------------------------------------------ *)
\* lines 139-147, times 4 to stay in the integers: rows 1-3 are
\* 4 * diff[:3, 3], rows 4-6 are 4 * 0.5 * the skew part of diff, where
\* diff = (pose_plus - pose_minus) / (2 * epsilon).  Both poses are taken at
\* the same quarter turns, so their real parts cancel and diff is half the
\* difference P - M of their epsilon coefficients.
DiffColumn(P, M) ==
  << 2 * (P[1][4] - M[1][4]), 2 * (P[2][4] - M[2][4]), 2 * (P[3][4] - M[3][4]),
     (P[3][2] - M[3][2]) - (P[2][3] - M[2][3]),
     (P[1][3] - M[1][3]) - (P[3][1] - M[3][1]),
     (P[2][1] - M[2][1]) - (P[1][2] - M[1][2]) >>

JacobianColumn(pose_plus, pose_minus) ==
  DiffColumn(EpPart(pose_plus.m), EpPart(pose_minus.m))

\* the loop of compute_jacobian left by an exception
JacRaised(raised, h, acc, evals) ==
  [raised |-> raised, heap |-> h, cols |-> acc.cols, nan |-> acc.nan,
   evals |-> evals]

RECURSIVE JacobianLoop(_, _, _, _, _, _, _)
\* lines 134-147 of joint i: pose_plus is fp, computed on heap h; minus is
\* the reference held by angles_minus
JacMinus(dh, n, t, h, ja, i, acc, fp, minus, fm) ==
  IF fm.raised # "none"
    THEN JacRaised(fm.raised, h, acc, Append(acc.evals, h[minus]))
    ELSE JacobianLoop(dh, n, t, h, ja, i + 1,
           [cols |-> Append(acc.cols, JacobianColumn(fp.pose, fm.pose)),
            nan |-> acc.nan \/ fp.pose.nan \/ fm.pose.nan,
            evals |-> Append(acc.evals, h[minus])])

\* lines 134-136 of joint i, after pose_plus = fp: the copy at minus is
\* perturbed and evaluated
JacPlusDone(dh, n, t, h, ja, i, acc, fp, minus) ==
  IF fp.raised # "none"
    THEN JacRaised(fp.raised, h, acc, acc.evals)
    ELSE JacMinus(dh, n, t, Perturb(StoreCopy(h, minus, ja), minus, i, -1),
                  ja, i, acc, fp, minus,
                  forward_kinematics(dh, n,
                    Perturb(StoreCopy(h, minus, ja), minus, i, -1)[minus]))

\* lines 129-131 of joint i, on the heap h that holds the perturbed copy at
\* plus
JacPlus(dh, n, t, h, ja, i, acc, plus) ==
  JacPlusDone(dh, n, t, h, ja, i,
              [acc EXCEPT !.evals = Append(@, h[plus])],
              forward_kinematics(dh, n, h[plus]),
              CopyAngles(<<t, "angles_minus">>, ja))

\* lines 129-130 of joint i: the copy at plus; an index beyond the end of
\* the array raises IndexError
JacCopyPlus(dh, n, t, h, ja, i, acc, plus) ==
  IF i > Len(h[plus].v)
    THEN JacRaised("IndexError", h, acc, acc.evals)
    ELSE JacPlus(dh, n, t, Perturb(h, plus, i, 1), ja, i, acc, plus)

\* lines 127-147, from joint i on.  h: the heap; ja: the reference held by
\* joint_angles; acc: the columns so far (cols, nan) and the vectors
\* forward_kinematics was called with so far (evals).
JacobianLoop(dh, n, t, h, ja, i, acc) ==
  IF i > n
    THEN JacRaised("none", h, acc, acc.evals)
    ELSE JacCopyPlus(dh, n, t,
                     StoreCopy(h, CopyAngles(<<t, "angles_plus">>, ja), ja),
                     ja, i, acc, CopyAngles(<<t, "angles_plus">>, ja))

\* the locals angles_plus and angles_minus go out of scope
DropLocals(h, t) ==
  [h EXCEPT ![<<t, "angles_plus">>] = FreeCell,
            ![<<t, "angles_minus">>] = FreeCell]

\* what compute_jacobian returns after the loop r
JacobianResult(t, r) ==
  [raised |-> r.raised,
   heap |-> DropLocals(r.heap, t),
   jacobian |-> [nan |-> r.nan, cols |-> r.cols],
   evals |-> r.evals]

\* lines 114-149: the call compute_jacobian(joint_angles) of thread t on
\* heap h.  jacobian: 4 times the 6 x N matrix, as its N columns.
compute_jacobian(dh, n, t, h, ja) ==
  JacobianResult(t, JacobianLoop(dh, n, t, h, ja, 1,
                   [cols |-> <<>>, nan |-> FALSE, evals |-> <<>>]))

(* ------------------------------------------------------------------ *)
(* RobotKinematics.inverse_kinematics: the arithmetic of one iteration *)
(* ------------------------------------------------------------------ *)
\* line 79
max_iterations == 100

\* line 80: tolerance = 1e-6 = 1 / ToleranceInv
ToleranceInv == 1000000

\* line 81: learning_rate = 0.1 = 1 / LearningRateInv
LearningRateInv == 10

Det3(R) ==
    R[1][1] * (R[2][2] * R[3][3] - R[2][3] * R[3][2])
  - R[1][2] * (R[2][1] * R[3][3] - R[2][3] * R[3][1])
  + R[1][3] * (R[2][1] * R[3][2] - R[2][2] * R[3][1])

\* the adjugate of the 3x3 block of M
Adj3(M) ==
  LET c(i, j) == M[(i % 3) + 1][(j % 3) + 1] * M[((i + 1) % 3) + 1][((j + 1) % 3) + 1]
               - M[(i % 3) + 1][((j + 1) % 3) + 1] * M[((i + 1) % 3) + 1][(j % 3) + 1]
  IN << <<c(1, 1), c(2, 1), c(3, 1)>>,
        <<c(1, 2), c(2, 2), c(3, 2)>>,
        <<c(1, 3), c(2, 3), c(3, 3)>> >>

\* the inverse of the pose M from the determinant det and the adjugate A of
\* its rotation block
Inv4From(M, det, A) ==
  LET Ri(i, j) == (A[i][j] * det) \div (det * det)
      t(i) == -(Ri(i, 1) * M[1][4] + Ri(i, 2) * M[2][4] + Ri(i, 3) * M[3][4])
  IN [raised |-> "none",
      m |-> << <<Ri(1, 1), Ri(1, 2), Ri(1, 3), t(1)>>,
               <<Ri(2, 1), Ri(2, 2), Ri(2, 3), t(2)>>,
               <<Ri(3, 1), Ri(3, 2), Ri(3, 3), t(3)>>,
               <<0, 0, 0, 1>> >>]

\* variant: the pose itself where its inverse is wanted
NoInverse(M) == [raised |-> "none", m |-> M]

\* np.linalg.inv of a pose [[R, p], [0, 1]] with integer entries:
\* [[R^-1, -R^-1 p], [0, 1]], R^-1 = adj(R) / det(R); LinAlgError when R is
\* singular.  The rotation block of a product of link transforms on quarter
\* turns has determinant 1, which makes the division exact.
Inv4(M) ==
  IF Det3(M) = 0
    THEN [raised |-> "LinAlgError", m |-> M]
    ELSE Inv4From(M, Det3(M), Adj3(M))

\* a @ b for 4x4 integer matrices
IntMatMul(A, B) ==
  LET c(i, j) == A[i][1] * B[1][j] + A[i][2] * B[2][j]
               + A[i][3] * B[3][j] + A[i][4] * B[4][j]
  IN Mat4(c)

\* lines 89-96 from pose_error pe, times 2 to stay in the integers:
\* 2 * position_error, then 2 * orientation_error = the skew part of pe
ErrorOf(raised, pe) ==
  [raised |-> raised, nan |-> FALSE,
   e |-> << 2 * pe[1][4], 2 * pe[2][4], 2 * pe[3][4],
            pe[3][2] - pe[2][3], pe[1][3] - pe[3][1], pe[2][1] - pe[1][2] >>]

\* line 88 on: pose_error = inv @ target_pose
ErrorFrom(inv, target_pose) ==
  ErrorOf(inv.raised, IntMatMul(inv.m, target_pose.m))

\* lines 88-96.  A NaN anywhere in either pose reaches every column of the
\* product, hence the error vector.
ErrorVector(current_pose, target_pose) ==
  IF current_pose.nan \/ target_pose.nan
    THEN [raised |-> "none", nan |-> TRUE, e |-> <<0, 0, 0, 0, 0, 0>>]
    ELSE ErrorFrom(Inv4(RePart(current_pose.m)), target_pose)

\* (2 * error_norm)^2
NormSq(err) ==
  err.e[1] * err.e[1] + err.e[2] * err.e[2] + err.e[3] * err.e[3]
  + err.e[4] * err.e[4] + err.e[5] * err.e[5] + err.e[6] * err.e[6]

\* s * inv^2 < bound for naturals s, inv >= 1, bound, decided factor by
\* factor to stay inside 32 bits
ScaledBelow(s, inv, bound) ==
  IF s > bound THEN FALSE
  ELSE IF s * inv > bound THEN FALSE
  ELSE s * inv * inv < bound

\* line 99: error_norm < tolerance, that is
\* (2 * error_norm)^2 * ToleranceInv^2 < 4; a NaN norm compares False
BelowTolerance(err) == ~err.nan /\ ScaledBelow(NormSq(err), ToleranceInv, 4)

Dot6(a, b) ==
  a[1] * b[1] + a[2] * b[2] + a[3] * b[3] + a[4] * b[4] + a[5] * b[5] + a[6] * b[6]

\* np.linalg.pinv(J) @ e for the 6 x N matrix with columns cols, N <= 2, as
\* the numerators num over the common denominator den > 0.  With G = J^T J
\* and g = J^T e: G^-1 g at full rank, g / trace(G) at rank 1 (the
\* pseudo-inverse of a rank-1 matrix is its transpose over its squared
\* Frobenius norm), 0 for the zero matrix.
PinvApply(cols, e) ==
  LET N == Len(cols)
      g(i) == Dot6(cols[i], e)
      G(i, j) == Dot6(cols[i], cols[j])
  IN CASE N = 0 -> [num |-> <<>>, den |-> 1]
       [] N = 1 -> IF G(1, 1) = 0 THEN [num |-> <<0>>, den |-> 1]
                   ELSE [num |-> <<g(1)>>, den |-> G(1, 1)]
       [] N = 2 ->
            LET det == G(1, 1) * G(2, 2) - G(1, 2) * G(2, 1)
                tr == G(1, 1) + G(2, 2)
            IN IF det # 0
                 THEN [num |-> << G(2, 2) * g(1) - G(1, 2) * g(2),
                                  G(1, 1) * g(2) - G(2, 1) * g(1) >>,
                       den |-> det]
                 ELSE IF tr = 0 THEN [num |-> <<0, 0>>, den |-> 1]
                 ELSE [num |-> <<g(1), g(2)>>, den |-> tr]

\* a change of num/den quarter turns (den > 0) on the grid of the model:
\* rounded to the nearest quarter turn, and never to zero when it is not
\* zero, so that a non-zero correction moves the joint
ToGrid(num, den) ==
  IF num = 0 THEN 0
  ELSE LET r == (2 * Abs(num) + den) \div (2 * den)
       IN Sign(num) * (IF r = 0 THEN 1 ELSE r)

\* line 108: learning_rate * delta_angles, in quarter turns.  The jacobian
\* is held times 4 and the error times 2, so delta = 2 * x radians with
\* x = pinv(4J) (2e); a radian is 2/pi quarter turns, pi taken as 22/7.
StepOf(x, i) ==
  ToGrid(2 * x.num[i] * 2 * 7, LearningRateInv * x.den * 22)

\* variant: each joint kept within a quarter turn of zero after the update
ClampedSteps(a, x) ==
  [a EXCEPT !.v = [i \in 1..Len(a.v) |->
      IF i <= Len(x.num)
        THEN <<IF a.v[i][1] + StepOf(x, i) > 1 THEN 1
               ELSE IF a.v[i][1] + StepOf(x, i) < -1 THEN -1
               ELSE a.v[i][1] + StepOf(x, i), a.v[i][2]>>
        ELSE a.v[i]]]

\* line 108: the array at ja after += learning_rate * delta_angles, with
\* delta_angles = 2 * x
AddSteps(a, x) ==
  [a EXCEPT !.v = [i \in 1..Len(a.v) |->
      IF i <= Len(x.num) THEN <<a.v[i][1] + StepOf(x, i), a.v[i][2]>>
      ELSE a.v[i]]]

\* lines 107-108: joint_angles += learning_rate * (pinv(jacobian) @
\* error_vector), in place.  np.linalg.pinv raises LinAlgError (the SVD does
\* not converge) on a jacobian holding NaN; a NaN in the error vector makes
\* every component of the product, and of joint_angles, NaN.
PinvUpdate(h, ja, jacobian, error_vector) ==
  IF jacobian.nan
    THEN [raised |-> "LinAlgError", heap |-> h]
    ELSE IF error_vector.nan \/ h[ja].nan
      THEN [raised |-> "none",
            heap |-> [h EXCEPT ![ja] = NaNVec(Len(h[ja].v))]]
      ELSE [raised |-> "none",
            heap |-> [h EXCEPT ![ja] =
                        AddSteps(h[ja], PinvApply(jacobian.cols, error_vector.e))]]

(* ------------------------------------------------------------------ *)
(* TrajectoryPlanner.plan_trajectory: the arithmetic, in rationals     *)
(* ------------------------------------------------------------------ *)
\* the rational n/d in lowest terms, d > 0
Rat(n, d) ==
  <<Sign(d) * (n \div Gcd(n, d)), Abs(d) \div Gcd(n, d)>>

Lcm(a, b) == (a \div Gcd(a, b)) * b

RECURSIVE Pow(_, _)
\* x**k
Pow(x, k) == IF k = 0 THEN 1 ELSE x * Pow(x, k - 1)

\* the tuples with entries f(1), f(2), ...
Tup6(f(_)) == <<f(1), f(2), f(3), f(4), f(5), f(6)>>

Tup12(f(_)) ==
  <<f(1), f(2), f(3), f(4), f(5), f(6), f(7), f(8), f(9), f(10), f(11), f(12)>>

\* lines 200-207: the boundary-condition matrix A
BoundaryMatrix(t0, tf) ==
  << <<1, t0, Pow(t0, 2), Pow(t0, 3), Pow(t0, 4), Pow(t0, 5)>>,
     <<0, 1, 2 * t0, 3 * Pow(t0, 2), 4 * Pow(t0, 3), 5 * Pow(t0, 4)>>,
     <<0, 0, 2, 6 * t0, 12 * Pow(t0, 2), 20 * Pow(t0, 3)>>,
     <<1, tf, Pow(tf, 2), Pow(tf, 3), Pow(tf, 4), Pow(tf, 5)>>,
     <<0, 1, 2 * tf, 3 * Pow(tf, 2), 4 * Pow(tf, 3), 5 * Pow(tf, 4)>>,
     <<0, 0, 2, 6 * tf, 12 * Pow(tf, 2), 20 * Pow(tf, 3)>> >>

\* np.column_stack of six 1-D arrays: the arrays become the columns, so the
\* result has one row per component; ValueError when the lengths differ
column_stack(vs) ==
  IF \E c \in 2..6 : Len(vs[c]) # Len(vs[1])
    THEN [raised |-> "ValueError", m |-> <<>>]
    ELSE [raised |-> "none",
          m |-> [r \in 1..Len(vs[1]) |-> Tup6(LAMBDA c : vs[c][r])]]

RECURSIVE RowGcd(_, _)
\* the gcd of the entries i.. of a row
RowGcd(row, i) ==
  IF i > Len(row) THEN 0 ELSE Gcd(row[i], RowGcd(row, i + 1))

\* a row of the augmented system divided by the gcd g of its entries
Normal(row, g) == IF g = 0 THEN row ELSE Tup12(LAMBDA c : row[c] \div g)

\* the augmented system M with rows k and p exchanged
Swap(M, k, p) ==
  Tup6(LAMBDA j : IF j = k THEN M[p] ELSE IF j = p THEN M[k] ELSE M[j])

\* row j of M after column k is eliminated from it with the pivot row k
Eliminated(M, k, j) ==
  IF j = k THEN M[k]
  ELSE Tup12(LAMBDA c : M[k][k] * M[j][c] - M[j][k] * M[k][c])

\* variant: no pivot is ever found
NoPivot(M, k) == 0

\* the first row from k on with a non-zero entry in column k, 0 if none
PivotRow(M, k) ==
  IF \A j \in k..6 : M[j][k] = 0 THEN 0
  ELSE CHOOSE j \in k..6 : M[j][k] # 0 /\ \A i \in k..(j - 1) : M[i][k] = 0

RECURSIVE Eliminate(_, _)
\* Gauss-Jordan elimination of the augmented system [A | b] from column k
\* on, in exact arithmetic; a column with no pivot is a singular matrix
GaussStep(M, k) ==
  Eliminate(Tup6(LAMBDA j : Normal(Eliminated(M, k, j),
                                   RowGcd(Eliminated(M, k, j), 1))), k + 1)

Eliminate(M, k) ==
  IF k > 6 THEN [raised |-> "none", m |-> M]
  ELSE IF PivotRow(M, k) = 0 THEN [raised |-> "LinAlgError", m |-> M]
  ELSE GaussStep(Swap(M, k, PivotRow(M, k)), k)

\* the solution read off the eliminated system r: x[k][c] = m[k][6+c] / m[k][k]
Solution(r) ==
  [raised |-> r.raised,
   x |-> IF r.raised # "none" THEN <<>>
         ELSE Tup6(LAMBDA k : Tup6(LAMBDA c : Rat(r.m[k][6 + c], r.m[k][k])))]

\* np.linalg.solve(A, b), A 6 x 6: ValueError unless b has 6 rows,
\* LinAlgError when A is singular
solve(A, b) ==
  IF Len(b) # Len(A)
    THEN [raised |-> "ValueError", x |-> <<>>]
    ELSE Solution(Eliminate(Tup6(LAMBDA j : A[j] \o b[j]), 1))

\* line 214
num_points == 100

\* line 215, np.linspace(t0, tf, num_points)[i], i from 0, with t0 = 0
linspace(tf, i) == Rat(i * tf, num_points - 1)

\* a < b for rationals
RatLess(a, b) == a[1] * b[2] < b[1] * a[2]

(* A sample is [u |-> U, x |-> <<w, d1, .., d5>>]: the number              *)
(* (w + d1/99 + d2/99^2 + .. + d5/99^5) / U, the digits d in 0..98: the     *)
(* exact value of a quintic with rational coefficients at t = i*tf/99.      *)
RECURSIVE Carry(_, _, _, _, _)
\* x * i / 99, from digit position j down, c carried in
Carry(x, i, j, c, acc) ==
  IF j = 0 THEN <<c>> \o acc
  ELSE Carry(x, i, j - 1, (x[j] * i + c) \div (num_points - 1),
             <<(x[j] * i + c) % (num_points - 1)>> \o acc)

RECURSIVE Horner(_, _, _, _)
\* sum over j <= k of K[j+1] * (i/99)^j, acc the part above k
Horner(K, i, k, acc) ==
  IF k = 0 THEN acc
  ELSE Horner(K, i, k - 1,
              [Carry(acc, i, 5, 0, <<>>) EXCEPT ![1] = @ + K[k]])

\* the polynomial sum_k a[k+1] * t^k at t = i*tf/99, the a[k] rationals with
\* the common denominator U of the a[k] * tf^k
PolyOver(a, tf, i, U) ==
  [u |-> U,
   x |-> Horner(Tup6(LAMBDA k : a[k][1] * Pow(tf, k - 1) * (U \div a[k][2])),
                i, 5, <<a[6][1] * Pow(tf, 5) * (U \div a[6][2]), 0, 0, 0, 0, 0>>)]

PolyAt(a, tf, i) ==
  PolyOver(a, tf, i,
           Lcm(Lcm(Lcm(a[1][2], a[2][2]), Lcm(a[3][2], a[4][2])),
               Lcm(a[5][2], a[6][2])))

\* lines 220-221: coefficients.T @ [1, t, t^2, t^3, t^4, t^5], t = time_points[i]
PositionRow(coefficients, tf, i) ==
  [c \in 1..Len(coefficients[1]) |->
     PolyAt(Tup6(LAMBDA k : coefficients[k][c]), tf, i)]

\* lines 223-224: coefficients.T @ [0, 1, 2t, 3t^2, 4t^3, 5t^4]
VelocityRow(coefficients, tf, i) ==
  [c \in 1..Len(coefficients[1]) |->
     PolyAt(Tup6(LAMBDA k : IF k = 6 THEN <<0, 1>>
                            ELSE Rat(k * coefficients[k + 1][c][1],
                                     coefficients[k + 1][c][2])), tf, i)]

\* the number n as a sample, and a row of zeros (np.zeros)
SampleOf(n) == [u |-> 1, x |-> <<n, 0, 0, 0, 0, 0>>]

RECURSIVE Times(_, _, _, _, _)
\* the digits of x * m, from digit position j down, c carried in
Times(x, m, j, c, acc) ==
  IF j = 1 THEN <<x[1] * m + c>> \o acc
  ELSE Times(x, m, j - 1, (x[j] * m + c) \div (num_points - 1),
             <<(x[j] * m + c) % (num_points - 1)>> \o acc)

\* the digits y of a number over u exceed the integer n * u
DigitsAbove(y, n) == y[1] > n \/ (y[1] = n /\ \E j \in 2..6 : y[j] > 0)

\* sample s > the rational b
SampleAbove(s, b) == DigitsAbove(Times(s.x, b[2], 6, 0, <<>>), b[1] * s.u)

(* ------------------------------------------------------------------ *)
(* Bounds and inputs                                                   *)
(* ------------------------------------------------------------------ *)
\* caller-supplied joint angles range over -MaxAngle..MaxAngle quarter turns
MaxAngle == 1

\* calls each caller makes on the shared instance
MaxCalls == 2

\* the chains a RobotKinematics is constructed with: (a, alpha, d, theta
\* offset) per joint, alpha and the offset in quarter turns
Chains ==
  { << <<1, 0, 0, 0>> >>,
    << <<1, 0, 0, 0>>, <<1, 0, 0, 0>> >>,
    << <<0, 1, 1, 0>>, <<1, 0, 0, 1>> >> }

Grid == (-MaxAngle)..MaxAngle

\* the joint vectors of length n the caller holds: the first joint anywhere
\* on the grid, the others bent by a quarter turn
GridVectors(n) == {Vec([i \in 1..n |-> IF i = 1 THEN q ELSE 1]) : q \in Grid}

\* what a caller passes as joint_angles / initial_guess: the vectors of the
\* chain's length, and one shorter and one longer vector
ArgVectors(n) == GridVectors(n) \cup {Zeros(n - 1), Zeros(n + 1)}

\* a target pose: a 4x4 matrix of numbers, or NaN
Target(M) == [nan |-> FALSE, m |-> M]

\* a pose no joint vector reaches
FarTarget == Target(<< <<1, 0, 0, 9>>, <<0, 1, 0, 0>>, <<0, 0, 1, 0>>, <<0, 0, 0, 1>> >>)

NaNTarget == [nan |-> TRUE, m |-> RePart(Eye4)]

\* the pose of the joint vector q, as a target
PoseOf(dh, q) == Target(RePart(forward_kinematics(dh, Len(dh), q).pose.m))

\* the target poses of inverse_kinematics: the pose of the zero vector, the
\* pose of the caller's array v when it has the chain's length, a pose out
\* of reach and a pose holding NaN
Targets(dh, v) ==
  {PoseOf(dh, q) : q \in {Zeros(Len(dh))} \cup
                          (IF Len(v.v) = Len(dh) THEN {v} ELSE {})}
  \cup {FarTarget, NaNTarget}

(* ------------------------------------------------------------------ *)
(* State                                                               *)
(* ------------------------------------------------------------------ *)
VARIABLES
  objects,      \* the classes the program has constructed an instance of
  dh_params,    \* RobotKinematics.dh_params of the shared instance
  num_joints,   \* RobotKinematics.num_joints
  heap,         \* the arrays: reference -> array
  fr,           \* per caller: the frame of its call on the instance
  alone,        \* per caller: the same call run alone, on a private heap
  planners,     \* per TrajectoryPlanner: max_velocity, max_acceleration
  pl,           \* the frame of the caller's plan_trajectory call
  controller,   \* leee_robot._controller: the global RobotController
  interfaces,   \* the RobotInterface objects constructed, in order
  sockets,      \* the WebSocket connections opened, in order
  rc,           \* the frame of the caller's call on the remote interface
  robot_state,  \* app.py: the dashboard's global state
  control_commands, \* app.py: the command queue
  web,          \* app.py: the threads, the handlers and what they delivered
  demo          \* pick_and_place_demo.py: the PickAndPlaceDemo and its call

Callers == {1, 2}

Addrs == {ArgAddr} \cup LocalAddr(1) \cup LocalAddr(2)

\* initial_guess = None
NoneRef == <<0, "None">>

NoValue == [kind |-> "none", val |-> FreeCell]

\* a caller that has made no call.  evals: the vectors the last
\* compute_jacobian of the call passed to forward_kinematics, in order
IdleFrame ==
  [pc |-> "idle", op |-> "none", target |-> NaNTarget, arg |-> NoneRef,
   joint_angles |-> NoneRef, iteration |-> 0,
   error_vector |-> [raised |-> "none", nan |-> FALSE, e |-> <<0, 0, 0, 0, 0, 0>>],
   jacobian |-> [nan |-> FALSE, cols |-> <<>>],
   result |-> NoValue, outcome |-> "none", prev |-> NoValue,
   measured |-> FreeCell, composed |-> 0, evals |-> <<>>,
   ncalls |-> 0, nfk |-> 0, njac |-> 0, nupd |-> 0, nerr |-> 0,
   overlap |-> FALSE]

\* the locals of a finished call go out of scope
FreeLocals(h, t) == [a \in DOMAIN h |-> IF a \in LocalAddr(t) THEN FreeCell ELSE h[a]]

\* the call ends: it returns (kind "array", "pose", "matrix", "None") or
\* an exception leaves it (kind = the exception)
Finish(h, t, f, result, outcome) ==
  [heap |-> FreeLocals(h, t),
   f |-> [f EXCEPT !.pc = "done", !.result = result,
                   !.outcome = outcome, !.joint_angles = NoneRef]]

\* an exception leaves the call
Raise(h, t, f, raised) ==
  Finish(h, t, f, [kind |-> raised, val |-> FreeCell], "raised")

(* ------------------------------------------------------------------ *)
(* The calls, step by step.  Each operator takes the chain, the caller *)
(* t, a heap h and a frame f and gives the heap and frame after it.    *)
(* ------------------------------------------------------------------ *)
\* the call forward_kinematics(joint_angles) ends with r
FKDone(h, t, f, r) ==
  IF r.raised # "none"
    THEN Raise(h, t, f, r.raised)
    ELSE Finish(h, t, f, [kind |-> "pose", val |-> r.pose], "returned")

\* lines 41-61 as a call of its own: forward_kinematics(joint_angles)
FKOp(dh, n, t, h, f) ==
  FKDone(h, t, [f EXCEPT !.nfk = @ + 1,
                         !.composed = forward_kinematics(dh, n, h[f.arg]).composed],
         forward_kinematics(dh, n, h[f.arg]))

\* the call compute_jacobian(joint_angles) ends with r
JacDone(t, f, r) ==
  IF r.raised # "none"
    THEN Raise(r.heap, t, [f EXCEPT !.nfk = @ + Len(r.evals), !.njac = @ + 1,
                                    !.evals = r.evals],
                r.raised)
    ELSE Finish(r.heap, t, [f EXCEPT !.nfk = @ + Len(r.evals), !.njac = @ + 1,
                                     !.evals = r.evals],
                [kind |-> "matrix", val |-> r.jacobian], "returned")

\* lines 114-149 as a call of its own: compute_jacobian(joint_angles)
JacOp(dh, n, t, h, f) == JacDone(t, f, compute_jacobian(dh, n, t, h, f.arg))

\* variant: a loop that runs once more
LoopOnceMore(i) == i <= max_iterations

\* line 83: range(max_iterations) has a next value after i iterations
LoopContinues(i) == i < max_iterations

\* variant: the vector is updated once more before it is returned
ReturnedUpdated(h, f) ==
  [kind |-> "array",
   val |-> [h[f.joint_angles] EXCEPT !.v[1] = <<@[1] + 1, @[2]>>]]

\* line 100: return joint_angles
ReturnedArray(h, f) == [kind |-> "array", val |-> h[f.joint_angles]]

\* variant: the singular case reported with an outcome of its own
ReportSingular(h, f) == [kind |-> "SingularJacobian", val |-> FreeCell]

\* line 110: return None, the pseudo-inverse could not be formed
SingularReturn(h, f) == [kind |-> "None", val |-> FreeCell]

\* variant: the iterate reached is returned when the loop runs out
ReturnIterate(h, f) == [kind |-> "array", val |-> h[f.joint_angles]]

\* line 112: return None, the loop ran out
ExhaustedReturn(h, f) == [kind |-> "None", val |-> FreeCell]

\* lines 83 and 112: the head of the for loop, i iterations done
IKLoopHead(h, t, f, i) ==
  IF LoopContinues(i)
    THEN [heap |-> h, f |-> [f EXCEPT !.iteration = i, !.pc = "ik_measure"]]
    ELSE Finish(h, t, f, ExhaustedReturn(h, f), "failed-no-convergence")

\* lines 75-81: the default guess, the copy, the loop's first test
IKCopy(h, t, f, guess) ==
  IKLoopHead(StoreCopy(h, CopyGuess(<<t, "joint_angles">>, guess), guess), t,
             [f EXCEPT !.joint_angles = CopyGuess(<<t, "joint_angles">>, guess)],
             0)

IKEntryOp(dh, n, t, h, f) ==
  IF f.arg = NoneRef
    THEN IKCopy([h EXCEPT ![<<t, "zeros">>] = Zeros(n)], t, f, <<t, "zeros">>)
    ELSE IKCopy(h, t, f, f.arg)

\* lines 97-100 and the fall into line 103, with the error vector err
IKTest(h, t, f, err) ==
  IF err.raised # "none"
    THEN Raise(h, t, f, err.raised)
    ELSE IF BelowTolerance(err)
      THEN Finish(h, t, [f EXCEPT !.error_vector = err],
                  ReturnedArray(h, f), "converged")
      ELSE [heap |-> h,
            f |-> [f EXCEPT !.error_vector = err, !.pc = "ik_jacobian"]]

\* lines 85-100 after current_pose = r
IKMeasured(h, t, f, r, target) ==
  IF r.raised # "none"
    THEN Raise(h, t, f, r.raised)
    ELSE IKTest(h, t, f, ErrorVector(r.pose, target))

\* lines 85-100: the current pose, the error vector, the convergence test
IKMeasureOp(dh, n, t, h, f) ==
  IKMeasured(h, t,
             [f EXCEPT !.nfk = @ + 1, !.nerr = @ + 1,
                       !.measured = h[f.joint_angles]],
             forward_kinematics(dh, n, h[f.joint_angles]), f.target)

\* line 103 after the call gave r
IKJacobianDone(t, f, r) ==
  IF r.raised # "none"
    THEN Raise(r.heap, t, [f EXCEPT !.nfk = @ + Len(r.evals), !.njac = @ + 1,
                                    !.evals = r.evals],
                r.raised)
    ELSE [heap |-> r.heap,
          f |-> [f EXCEPT !.nfk = @ + Len(r.evals), !.njac = @ + 1,
                          !.evals = r.evals,
                          !.jacobian = r.jacobian, !.pc = "ik_update"]]

\* line 103: jacobian = self.compute_jacobian(joint_angles)
IKJacobianOp(dh, n, t, h, f) ==
  IKJacobianDone(t, f, compute_jacobian(dh, n, t, h, f.joint_angles))

\* variant: the vector of every update is measured, the last one too
TestedLast(h, t, f, r) ==
  IF r.raised # "none"
    THEN Finish(h, t, f, SingularReturn(h, f), "failed-singular")
    ELSE [heap |-> r.heap,
          f |-> [f EXCEPT !.nupd = @ + 1, !.iteration = @ + 1,
                          !.pc = "ik_measure"]]

\* variant: a pseudo-inverse that cannot be formed skips the update and
\* the loop goes on
SkipSingular(h, t, f, r) ==
  IF r.raised # "none"
    THEN IKLoopHead(h, t, f, f.iteration + 1)
    ELSE IKLoopHead(r.heap, t, [f EXCEPT !.nupd = @ + 1], f.iteration + 1)

\* lines 106-110 after the try block gave r, then the loop's next test
IKUpdated(h, t, f, r) ==
  IF r.raised # "none"
    THEN Finish(h, t, f, SingularReturn(h, f), "failed-singular")
    ELSE IKLoopHead(r.heap, t, [f EXCEPT !.nupd = @ + 1], f.iteration + 1)

\* lines 106-110, then the loop's next test
IKUpdateOp(dh, n, t, h, f) ==
  IKUpdated(h, t, f, PinvUpdate(h, f.joint_angles, f.jacobian, f.error_vector))

\* the step of frame f
KinStep(dh, n, t, h, f) ==
  CASE f.pc = "fk" -> FKOp(dh, n, t, h, f)
    [] f.pc = "jac" -> JacOp(dh, n, t, h, f)
    [] f.pc = "ik_entry" -> IKEntryOp(dh, n, t, h, f)
    [] f.pc = "ik_measure" -> IKMeasureOp(dh, n, t, h, f)
    [] f.pc = "ik_jacobian" -> IKJacobianOp(dh, n, t, h, f)
    [] f.pc = "ik_update" -> IKUpdateOp(dh, n, t, h, f)
    [] OTHER -> [heap |-> h, f |-> f]

(* ------------------------------------------------------------------ *)
(* Actions                                                             *)
(* ------------------------------------------------------------------ *)
\* the heap a call of caller t can reach: the caller's array and its locals
PrivateHeap(h, t) == [a \in {ArgAddr} \cup LocalAddr(t) |-> h[a]]

\* caller t starts the call in frame f
Begin(t, f) ==
  /\ fr' = [fr EXCEPT ![t] = f]
  /\ UNCHANGED <<objects, dh_params, num_joints, heap, planners, pl,
               controller, interfaces, sockets, rc,
          robot_state, control_commands, web, demo>>

\* a call of another caller is in progress
InFlight(t) == \E u \in Callers \ {t} : fr[u].pc \notin {"idle", "done"}

\* caller t takes a step of its call, which gives r; overlap records that it
\* ran while another call was in progress
Advance(t, r) ==
  /\ heap' = r.heap
  /\ fr' = [fr EXCEPT ![t] = [r.f EXCEPT !.overlap = @ \/ InFlight(t)]]
  /\ UNCHANGED <<objects, dh_params, num_joints, planners, pl,
               controller, interfaces, sockets, rc,
          robot_state, control_commands, web, demo>>

\* the call caller t has just started, about to run alone: the chain, the
\* caller's array and the frame as they are at the call, on a heap of its
\* own, with no other caller
AloneBegin(t) ==
  alone' = [alone EXCEPT ![t] = [dh |-> dh_params, n |-> num_joints,
                                 heap |-> PrivateHeap(heap, t), f |-> fr'[t]]]

\* the call of caller t run alone takes its next step
AloneStep(t) ==
  LET a == alone[t]
      s == KinStep(a.dh, a.n, t, a.heap, a.f)
  IN alone' = [alone EXCEPT ![t] = [a EXCEPT !.heap = s.heap, !.f = s.f]]

\* caller t calls robot.forward_kinematics(arg)
CallFK(t, limit) ==
  /\ "RobotKinematics" \in objects
  /\ fr[t].pc = "idle" /\ fr[t].ncalls < limit
  /\ Begin(t, [IdleFrame EXCEPT !.pc = "fk", !.op = "fk", !.arg = ArgAddr,
                                !.ncalls = fr[t].ncalls + 1])

\* caller t calls robot.compute_jacobian(arg)
CallJacobian(t, limit) ==
  /\ "RobotKinematics" \in objects
  /\ fr[t].pc = "idle" /\ fr[t].ncalls < limit
  /\ Begin(t, [IdleFrame EXCEPT !.pc = "jac", !.op = "jac", !.arg = ArgAddr,
                                !.ncalls = fr[t].ncalls + 1])

\* caller t calls robot.inverse_kinematics(target, arg) or
\* robot.inverse_kinematics(target), target among T
CallIK(t, limit, T) ==
  /\ "RobotKinematics" \in objects
  /\ fr[t].pc = "idle" /\ fr[t].ncalls < limit
  /\ \E target \in T, arg \in {ArgAddr, NoneRef} :
       Begin(t, [IdleFrame EXCEPT !.pc = "ik_entry", !.op = "ik",
                                  !.target = target, !.arg = arg,
                                  !.ncalls = fr[t].ncalls + 1])

\* caller t makes its last call again, with the same arguments
Repeat(t, limit) ==
  /\ fr[t].pc = "done" /\ fr[t].ncalls < limit
  /\ Begin(t, [IdleFrame EXCEPT
                 !.pc = CASE fr[t].op = "fk" -> "fk" [] fr[t].op = "jac" -> "jac"
                          [] OTHER -> "ik_entry",
                 !.op = fr[t].op, !.target = fr[t].target, !.arg = fr[t].arg,
                 !.prev = fr[t].result, !.ncalls = fr[t].ncalls + 1])

ForwardKinematics(t) ==
  /\ fr[t].pc = "fk"
  /\ Advance(t, FKOp(dh_params, num_joints, t, heap, fr[t]))

ComputeJacobian(t) ==
  /\ fr[t].pc = "jac"
  /\ Advance(t, JacOp(dh_params, num_joints, t, heap, fr[t]))

IKEntry(t) ==
  /\ fr[t].pc = "ik_entry"
  /\ Advance(t, IKEntryOp(dh_params, num_joints, t, heap, fr[t]))

IKMeasure(t) ==
  /\ fr[t].pc = "ik_measure"
  /\ Advance(t, IKMeasureOp(dh_params, num_joints, t, heap, fr[t]))

IKJacobian(t) ==
  /\ fr[t].pc = "ik_jacobian"
  /\ Advance(t, IKJacobianOp(dh_params, num_joints, t, heap, fr[t]))

IKUpdate(t) ==
  /\ fr[t].pc = "ik_update"
  /\ Advance(t, IKUpdateOp(dh_params, num_joints, t, heap, fr[t]))

KinStepOf(t) ==
  \/ ForwardKinematics(t)
  \/ ComputeJacobian(t)
  \/ IKEntry(t)
  \/ IKMeasure(t)
  \/ IKJacobian(t)
  \/ IKUpdate(t)

(* ------------------------------------------------------------------ *)
(* TrajectoryPlanner.plan_trajectory, step by step                     *)
(* ------------------------------------------------------------------ *)
NoSamples ==
  [time_points |-> <<>>, position_trajectory |-> <<>>,
   velocity_trajectory |-> <<>>]

NoPlan == [kind |-> "none", val |-> NoSamples]

\* start_vel / end_vel: an array, or None
NoneVel == [given |-> FALSE, v |-> <<>>]

GivenVel(v) == [given |-> TRUE, v |-> v]

\* no plan_trajectory call made
IdlePlan ==
  [pc |-> "idle", self |-> 0, start_pos |-> <<>>, end_pos |-> <<>>,
   start_vel |-> NoneVel, end_vel |-> NoneVel, time_horizon |-> 0,
   coefficients |-> <<>>, time_points |-> <<>>,
   position_trajectory |-> <<>>, velocity_trajectory |-> <<>>, i |-> 0,
   result |-> NoPlan, outcome |-> "none", prev |-> NoPlan, prev_self |-> 0,
   ncalls |-> 0, nsamples |-> 0]

\* the call ends; its locals go out of scope
PlanFinish(f, result, outcome) ==
  [f EXCEPT !.pc = "done", !.result = result, !.outcome = outcome,
            !.coefficients = <<>>, !.time_points = <<>>,
            !.position_trajectory = <<>>, !.velocity_trajectory = <<>>]

\* an exception leaves plan_trajectory
PlanRaise(f, raised) ==
  PlanFinish(f, [kind |-> raised, val |-> NoSamples], "raised")

\* variant: a trajectory with a velocity above self.max_velocity is rejected
RejectAboveLimit(self, f) ==
  IF \E k \in 1..Len(f.velocity_trajectory) :
       \E c \in 1..Len(f.velocity_trajectory[k]) :
         SampleAbove(f.velocity_trajectory[k][c], self.max_velocity)
    THEN [kind |-> "ValueError", val |-> NoSamples]
    ELSE [kind |-> "tuple",
          val |-> [time_points |-> f.time_points,
                   position_trajectory |-> f.position_trajectory,
                   velocity_trajectory |-> f.velocity_trajectory]]

\* line 226: return time_points, position_trajectory, velocity_trajectory
PlanReturn(self, f) ==
  [kind |-> "tuple",
   val |-> [time_points |-> f.time_points,
            position_trajectory |-> f.position_trajectory,
            velocity_trajectory |-> f.velocity_trajectory]]

\* np.zeros_like(start_pos)
zeros_like(v) == [r \in 1..Len(v) |-> 0]

\* lines 182-185: the velocity given, or zeros shaped like start_pos
VelOrZeros(vel, start_pos) == IF vel.given THEN vel.v ELSE zeros_like(start_pos)

\* line 211 gave r
PlanSolved(f, r) ==
  IF r.raised # "none" THEN PlanRaise(f, r.raised)
  ELSE [f EXCEPT !.coefficients = r.x, !.pc = "pl_alloc"]

\* line 209 gave b; line 211 with t0 = 0.0 (line 191)
PlanStacked(f, b) ==
  IF b.raised # "none" THEN PlanRaise(f, b.raised)
  ELSE PlanSolved(f, solve(BoundaryMatrix(0, f.time_horizon), b.m))

\* lines 182-211: the boundary conditions and the coefficients
PlanEntryOp(self, f) ==
  PlanStacked(f,
    column_stack(<<f.start_pos, VelOrZeros(f.start_vel, f.start_pos),
                   zeros_like(f.start_pos),
                   f.end_pos, VelOrZeros(f.end_vel, f.start_pos),
                   zeros_like(f.start_pos)>>))

\* lines 219 and 226: the head of the sampling loop, i samples done
PlanLoopHead(self, f, i) ==
  IF i < Len(f.time_points)
    THEN [f EXCEPT !.i = i, !.pc = "pl_sample"]
    ELSE PlanFinish(f, PlanReturn(self, f), "returned")

\* lines 214-217: the time points and the two arrays of zeros
PlanAllocOp(self, f) ==
  PlanLoopHead(self,
    [f EXCEPT
       !.time_points = [k \in 1..num_points |-> linspace(f.time_horizon, k - 1)],
       !.position_trajectory =
          [k \in 1..num_points |-> [c \in 1..Len(f.start_pos) |-> SampleOf(0)]],
       !.velocity_trajectory =
          [k \in 1..num_points |-> [c \in 1..Len(f.start_pos) |-> SampleOf(0)]]],
    0)

\* lines 219-224: sample i of the position and of the velocity
PlanSampleOp(self, f) ==
  PlanLoopHead(self,
    [f EXCEPT
       !.position_trajectory[f.i + 1] =
          PositionRow(f.coefficients, f.time_horizon, f.i),
       !.velocity_trajectory[f.i + 1] =
          VelocityRow(f.coefficients, f.time_horizon, f.i),
       !.nsamples = @ + 1],
    f.i + 1)

\* the caller calls planner p: plan_trajectory(start_pos, end_pos,
\* start_vel, end_vel, time_horizon)
CallPlan(limit, Args, Durations) ==
  /\ "TrajectoryPlanner" \in objects
  /\ pl.pc = "idle" /\ pl.ncalls < limit
  /\ \E p \in DOMAIN planners, a \in Args, tf \in Durations :
       pl' = [IdlePlan EXCEPT !.pc = "pl_entry", !.self = p,
                              !.start_pos = a.start_pos, !.end_pos = a.end_pos,
                              !.start_vel = a.start_vel, !.end_vel = a.end_vel,
                              !.time_horizon = tf, !.ncalls = pl.ncalls + 1]
  /\ UNCHANGED <<objects, dh_params, num_joints, heap, fr, alone, planners,
               controller, interfaces, sockets, rc,
          robot_state, control_commands, web, demo>>

\* the caller makes its last plan_trajectory call again with the same
\* arguments, on either planner
RepeatPlan(limit) ==
  /\ pl.pc = "done" /\ pl.ncalls < limit
  /\ \E p \in DOMAIN planners :
       pl' = [IdlePlan EXCEPT !.pc = "pl_entry", !.self = p,
                              !.start_pos = pl.start_pos, !.end_pos = pl.end_pos,
                              !.start_vel = pl.start_vel, !.end_vel = pl.end_vel,
                              !.time_horizon = pl.time_horizon,
                              !.prev = pl.result, !.prev_self = pl.self,
                              !.ncalls = pl.ncalls + 1]
  /\ UNCHANGED <<objects, dh_params, num_joints, heap, fr, alone, planners,
               controller, interfaces, sockets, rc,
          robot_state, control_commands, web, demo>>

PlanEntry ==
  /\ pl.pc = "pl_entry"
  /\ pl' = PlanEntryOp(planners[pl.self], pl)
  /\ UNCHANGED <<objects, dh_params, num_joints, heap, fr, alone, planners,
               controller, interfaces, sockets, rc,
          robot_state, control_commands, web, demo>>

PlanAlloc ==
  /\ pl.pc = "pl_alloc"
  /\ pl' = PlanAllocOp(planners[pl.self], pl)
  /\ UNCHANGED <<objects, dh_params, num_joints, heap, fr, alone, planners,
               controller, interfaces, sockets, rc,
          robot_state, control_commands, web, demo>>

PlanSample ==
  /\ pl.pc = "pl_sample"
  /\ pl' = PlanSampleOp(planners[pl.self], pl)
  /\ UNCHANGED <<objects, dh_params, num_joints, heap, fr, alone, planners,
               controller, interfaces, sockets, rc,
          robot_state, control_commands, web, demo>>

(* ------------------------------------------------------------------ *)
(* Inputs of the planner                                               *)
(* ------------------------------------------------------------------ *)
\* durations range over -MaxDuration..MaxDuration
MaxDuration == 2

Durations == (-MaxDuration)..MaxDuration

\* lines 155-164: TrajectoryPlanner() and
\* TrajectoryPlanner(max_velocity=0.5, max_acceleration=0.2)
Planners ==
  <<[max_velocity |-> <<1, 1>>, max_acceleration |-> <<1, 2>>],
    [max_velocity |-> <<1, 2>>, max_acceleration |-> <<1, 5>>]>>

\* the arguments of plan_trajectory, positions in tenths: 3-vectors,
\* 6-vectors, and a start and an end of different lengths
PlanArgs ==
  { [start_pos |-> <<3, 0, 2>>, end_pos |-> <<5, 3, 4>>,
     start_vel |-> NoneVel, end_vel |-> NoneVel],
    [start_pos |-> <<0, 0, 0, 1, 0, 0>>, end_pos |-> <<1, 2, 0, 3, 0, 0>>,
     start_vel |-> NoneVel, end_vel |-> NoneVel],
    [start_pos |-> <<0, 0, 0, 2, 0, 0>>, end_pos |-> <<1, 0, 0, 0, 0, 0>>,
     start_vel |-> GivenVel(<<1, 0, 0, 0, 0, 0>>),
     end_vel |-> GivenVel(<<0, 0, 0, 0, 0, 0>>)],
    [start_pos |-> <<0, 0, 0, 1, 0, 0>>, end_pos |-> <<5, 3, 4>>,
     start_vel |-> NoneVel, end_vel |-> NoneVel] }

(* ------------------------------------------------------------------ *)
(* leee_robot.py: RobotInterface, RobotController, the module-level    *)
(* functions.  A Python dict is the sequence of its <<key, value>>     *)
(* pairs in insertion order, each value as Python writes it; a Python  *)
(* value is [type, items].                                             *)
(* ------------------------------------------------------------------ *)
\* self.interface = None (line 134)
NoInterface == 0

\* self.websocket = None (line 32)
NoSocket == 0

\* d.get(key, default)
get(d, key, default) ==
  IF \E i \in 1..Len(d) : d[i][1] = key
    THEN d[CHOOSE i \in 1..Len(d) : d[i][1] = key][2]
    ELSE default

\* the truth value of v, as `not v` tests it
Truthy(v) == v \notin {"False", "None", "0", ""}

PyDict(d) == [type |-> "dict", items |-> d]

PyList(l) == [type |-> "list", items |-> l]

PyBool(b) == [type |-> "bool", items |-> << <<"value", IF b THEN "True" ELSE "False">> >>]

NoneValue == [type |-> "None", items |-> <<>>]

\* line 72
NotConnected ==
  PyDict(<< <<"success", "False">>, <<"error", "Not connected to robot server">> >>)

\* line 89: {"success": False, "error": str(e)}
ErrorResult(e) == PyDict(<< <<"success", "False">>, <<"error", e>> >>)

\* lines 164 and 180
NotInitialized == PyDict(<< <<"error", "Controller not initialized">> >>)

\* line 189, for movement_type "joint"
Unsupported == PyDict(<< <<"error", "Unsupported movement type: joint">> >>)

\* what the server answers on the socket: a success, a failure, an object
\* with no "success" member, an array, and a text that is not JSON
OkText == "{\"success\": true}"

FailText == "{\"success\": false, \"error\": \"gripper jammed\"}"

Responses == {OkText, FailText, "{}", "[]", "HTTP/1.1 502"}

\* line 82: json.loads(response); JSONDecodeError on a text that is not JSON
json_loads(text) ==
  CASE text = OkText ->
         [raised |-> "none", value |-> PyDict(<< <<"success", "True">> >>)]
    [] text = FailText ->
         [raised |-> "none",
          value |-> PyDict(<< <<"success", "False">>, <<"error", "gripper jammed">> >>)]
    [] text = "{}" -> [raised |-> "none", value |-> PyDict(<<>>)]
    [] text = "[]" -> [raised |-> "none", value |-> PyList(<<>>)]
    [] OTHER -> [raised |-> "JSONDecodeError", value |-> NoneValue]

\* a value json.dumps cannot serialize: a dict holding an arbitrary object
ObjectParams == "{'payload': <object>}"

RECURSIVE Tokens(_, _)
\* the members of dict d from the i-th on, as JSON tokens
Tokens(d, i) ==
  IF i > Len(d) THEN <<>> ELSE <<d[i][1], ":", d[i][2]>> \o Tokens(d, i + 1)

\* line 80: json.dumps(message), the text as its tokens; TypeError on a value
\* that cannot be serialized
json_dumps(message) ==
  IF \E i \in 1..Len(message.params) : message.params[i][2] = ObjectParams
    THEN [raised |-> "TypeError", text |-> <<>>]
    ELSE [raised |-> "none",
          text |-> <<"{", "command", ":", message.command, "params", ":", "{">>
                   \o Tokens(message.params, 1) \o <<"}", "}">>]

\* lines 22-34: RobotInterface(host, port)
NewInterface == [websocket |-> NoSocket, connected |-> FALSE]

\* lines 133-135: RobotController(); exists is FALSE while _controller is None
NoController == [exists |-> FALSE, interface |-> NoInterface, tasks |-> <<>>]

\* variant: disconnect closes the socket and leaves the flag alone
StillConnected(x) == x

\* line 57: self.connected = False
Disconnected(x) == [x EXCEPT !.connected = FALSE]

\* lines 223-228
get_controller(c) == IF c.exists THEN c ELSE [NoController EXCEPT !.exists = TRUE]

\* no call made.  sent: the texts the call has sent on the socket; nrecv: the
\* texts it has received; sc: whether the last send_command found the
\* interface connected, and sent and nrecv when it was entered; before: the
\* interfaces when the call was made
IdleCall ==
  [pc |-> "idle", op |-> "none", movement_type |-> "none", kwargs |-> <<>>,
   task_name |-> "", task_params |-> "{}", tasks |-> <<>>, i |-> 0,
   results |-> <<>>, message |-> [command |-> "", params |-> <<>>],
   response |-> NoneValue, caught |-> "none", sent |-> <<>>, nrecv |-> 0,
   sc |-> [connected |-> FALSE, sent |-> 0, nrecv |-> 0],
   result |-> NoneValue, outcome |-> "none", raised |-> "none",
   had_interface |-> FALSE, before |-> <<>>]

\* the call returns value
Returns(f, value) ==
  [f EXCEPT !.pc = "done", !.result = value, !.outcome = "returned"]

\* the exception e leaves the call
Raises(f, e) == [f EXCEPT !.pc = "done", !.outcome = "raised", !.raised = e]

\* variant: the exception leaves send_command
Propagate(f, e) == Raises(f, e)

\* lines 87-89: the handler of send_command
SendCommandExcept(f, e) ==
  [f EXCEPT !.pc = "return", !.response = ErrorResult(e), !.caught = e]

\* lines 71-78: send_command(command, params) on interface x, up to the send
send_command(f, x, command, params) ==
  IF ~x.connected
    THEN [f EXCEPT !.pc = "return", !.response = NotConnected, !.caught = "none",
                   !.sc = [connected |-> FALSE, sent |-> Len(f.sent),
                           nrecv |-> f.nrecv]]
    ELSE [f EXCEPT !.pc = "send", !.caught = "none",
                   !.message = [command |-> command, params |-> params],
                   !.sc = [connected |-> TRUE, sent |-> Len(f.sent),
                           nrecv |-> f.nrecv]]

\* lines 91-98
get_status(f, x) == send_command(f, x, "get_status", <<>>)

\* lines 100-113
move_to_position(f, x, px, py, pz) ==
  send_command(f, x, "move_to", << <<"x", px>>, <<"y", py>>, <<"z", pz>> >>)

\* lines 115-127
execute_task(f, x, task_name, task_params) ==
  send_command(f, x, "execute_task",
               << <<"task_name", task_name>>, <<"task_params", task_params>> >>)

\* variant: a failed task does not end the sequence
NeverStops(result) == FALSE

\* line 212: not result.get("success", False)
TaskFailed(result) == ~Truthy(get(result.items, "success", "False"))

\* lines 203-208 and 216: the head of the for loop of run_task_sequence, i
\* tasks done; self.interface.execute_task raises AttributeError when
\* self.interface is None
TaskLoopHead(c, X, f, i) ==
  IF i < Len(f.tasks)
    THEN IF c.interface = NoInterface
      THEN Raises([f EXCEPT !.i = i], "AttributeError")
      ELSE execute_task([f EXCEPT !.i = i], X[c.interface],
                        get(f.tasks[i + 1], "name", ""),
                        get(f.tasks[i + 1], "params", "{}"))
    ELSE Returns(f, PyList(f.results))

\* lines 209-214 with the result of execute_task, on the frame f that holds
\* it in results; result.get raises AttributeError when the result is not a
\* dict
TaskAppended(c, X, f, result) ==
  IF result.type # "dict" THEN Raises(f, "AttributeError")
  ELSE IF TaskFailed(result) THEN Returns(f, PyList(f.results))
  ELSE TaskLoopHead(c, X, f, f.i + 1)

\* lines 156-166
get_robot_status(c, X, f) ==
  IF c.interface = NoInterface THEN Returns(f, NotInitialized)
  ELSE get_status(f, X[c.interface])

\* lines 168-189; move_robot (lines 257-270) calls it with "position"
perform_movement(c, X, f) ==
  IF c.interface = NoInterface THEN Returns(f, NotInitialized)
  ELSE IF f.movement_type = "position"
    THEN move_to_position(f, X[c.interface], get(f.kwargs, "x", "0"),
                          get(f.kwargs, "y", "0"), get(f.kwargs, "z", "0"))
    ELSE Returns(f, Unsupported)

\* lines 273-285: controller.interface.execute_task(task_name, kwargs)
execute_robot_task(c, X, f) ==
  IF c.interface = NoInterface THEN Raises(f, "AttributeError")
  ELSE execute_task(f, X[c.interface], f.task_name, f.task_params)

\* lines 53-55: disconnect on interface x, up to the close of the socket
disconnect(f, x) ==
  IF x.websocket # NoSocket THEN [f EXCEPT !.pc = "close"]
  ELSE Returns(f, NoneValue)

\* lines 151-154
shutdown(c, X, f) ==
  IF c.interface # NoInterface THEN disconnect(f, X[c.interface])
  ELSE Returns(f, NoneValue)

\* the call of frame f on controller c, up to its first wait on the socket
ControllerCall(c, X, f) ==
  CASE f.op = "get_robot_status" -> get_robot_status(c, X, f)
    [] f.op \in {"move_robot", "perform_movement"} -> perform_movement(c, X, f)
    [] f.op = "execute_robot_task" -> execute_robot_task(c, X, f)
    [] f.op = "run_task_sequence" -> TaskLoopHead(c, X, f, 0)
    [] f.op = "connect" -> [f EXCEPT !.pc = "connect"]
    [] f.op = "disconnect" -> disconnect(f, X[c.interface])
    [] f.op = "send_command" ->
         send_command(f, X[c.interface], f.message.command, f.message.params)
    [] OTHER -> shutdown(c, X, f)

\* RobotInterface objects constructed by initialize
MaxInterfaces == 2

\* tasks in a list given to run_task_sequence
MaxTasks == 3

\* sockets opened by connect
MaxSockets == 3

\* the task lists: every list of up to MaxTasks of these tasks
TaskLists ==
  UNION {[1..n -> { << <<"name", "pick">> >>, << <<"name", "place">> >> }] :
           n \in 0..MaxTasks}

\* the calls the caller makes
RemoteCalls ==
  {[IdleCall EXCEPT !.op = op] :
     op \in {"initialize_robot", "shutdown_robot", "get_robot_status"}}
  \cup {[IdleCall EXCEPT !.op = "move_robot", !.movement_type = "position",
                         !.kwargs = << <<"x", "10.0">>, <<"y", "20.0">>,
                                       <<"z", "30.0">> >>],
        [IdleCall EXCEPT !.op = "perform_movement", !.movement_type = "joint"]}
  \cup {[IdleCall EXCEPT !.op = "execute_robot_task", !.task_name = "pick",
                         !.task_params = tp] : tp \in {"{}", ObjectParams}}
  \cup {[IdleCall EXCEPT !.op = "run_task_sequence", !.tasks = tasks] :
          tasks \in TaskLists}
  \cup {[IdleCall EXCEPT !.op = op] : op \in {"connect", "disconnect"}}
  \cup {[IdleCall EXCEPT !.op = "send_command",
                         !.message = [command |-> "stop", params |-> <<>>]]}

\* the methods the caller calls on the controller's RobotInterface itself
InterfaceCalls == {"connect", "disconnect", "send_command"}

kinVars == <<objects, dh_params, num_joints, heap, fr, alone, planners, pl>>

webVars == <<robot_state, control_commands, web>>

\* the caller calls a module-level function, a method of the controller
\* that get_controller() gives it, or a method of that controller's
\* RobotInterface
RemoteCall ==
  /\ "RobotController" \in objects
  /\ rc.pc \in {"idle", "done"}
  /\ \E f \in RemoteCalls :
       /\ f.op = "initialize_robot" => Len(interfaces) < MaxInterfaces
       /\ f.op \in {"initialize_robot", "connect"} => Len(sockets) < MaxSockets
       /\ f.op \in InterfaceCalls => controller.interface # NoInterface
       /\ rc' = [f EXCEPT !.pc = "entry",
                          !.had_interface = controller.exists
                                            /\ controller.interface # NoInterface,
                          !.before = interfaces]
  /\ UNCHANGED <<kinVars, webVars, demo, controller, interfaces, sockets>>

\* get_controller, then the function up to its first wait on the socket;
\* initialize (lines 148-149) constructs a new RobotInterface
RemoteEntry ==
  /\ rc.pc = "entry"
  /\ IF rc.op = "initialize_robot"
       THEN /\ controller' = [get_controller(controller) EXCEPT
                                !.interface = Len(interfaces) + 1]
            /\ interfaces' = Append(interfaces, NewInterface)
            /\ rc' = [rc EXCEPT !.pc = "connect"]
       ELSE /\ controller' = get_controller(controller)
            /\ interfaces' = interfaces
            /\ rc' = ControllerCall(get_controller(controller), interfaces, rc)
  /\ UNCHANGED <<kinVars, webVars, demo, sockets>>

\* lines 43-51: websockets.connect succeeds, or raises and connect returns
\* False; a socket records the call that opened it
Connect ==
  /\ rc.pc = "connect"
  /\ \/ /\ sockets' = Append(sockets, [open |-> TRUE, by |-> rc.op])
        /\ interfaces' = [interfaces EXCEPT
                            ![controller.interface].websocket = Len(sockets) + 1,
                            ![controller.interface].connected = TRUE]
        /\ rc' = Returns(rc, PyBool(TRUE))
     \/ /\ UNCHANGED <<sockets, interfaces>>
        /\ rc' = Returns(rc, PyBool(FALSE))
  /\ UNCHANGED <<kinVars, webVars, demo, controller>>

\* lines 56-58: the socket is closed
Close ==
  /\ rc.pc = "close"
  /\ sockets' = [sockets EXCEPT
                   ![interfaces[controller.interface].websocket].open = FALSE]
  /\ interfaces' = [interfaces EXCEPT ![controller.interface] = Disconnected(@)]
  /\ rc' = Returns(rc, NoneValue)
  /\ UNCHANGED <<kinVars, webVars, demo, controller>>

\* line 80: the message is serialized and sent, or either raises
Send ==
  /\ rc.pc = "send"
  /\ IF json_dumps(rc.message).raised # "none"
       THEN rc' = SendCommandExcept(rc, json_dumps(rc.message).raised)
       ELSE \/ /\ sockets[interfaces[controller.interface].websocket].open
               /\ rc' = [rc EXCEPT !.sent = Append(@, json_dumps(rc.message).text),
                                   !.pc = "recv"]
            \/ rc' = SendCommandExcept(rc, "ConnectionClosed")
  /\ UNCHANGED <<kinVars, webVars, demo, controller, interfaces, sockets>>

\* lines 81-85: a text is received and decoded, or either raises
Recv ==
  /\ rc.pc = "recv"
  /\ \/ \E text \in Responses :
          rc' = IF json_loads(text).raised # "none"
                  THEN SendCommandExcept([rc EXCEPT !.nrecv = @ + 1],
                                         json_loads(text).raised)
                  ELSE [rc EXCEPT !.nrecv = @ + 1, !.pc = "return",
                                  !.response = json_loads(text).value]
     \/ rc' = SendCommandExcept(rc, "ConnectionClosed")
  /\ UNCHANGED <<kinVars, webVars, demo, controller, interfaces, sockets>>

\* send_command returns to its caller: run_task_sequence appends the result
\* (line 209), the other functions return it
SendCommandReturn ==
  /\ rc.pc = "return"
  /\ rc' = IF rc.op = "run_task_sequence"
             THEN TaskAppended(controller, interfaces,
                               [rc EXCEPT !.results = Append(@, rc.response)],
                               rc.response)
             ELSE Returns(rc, rc.response)
  /\ UNCHANGED <<kinVars, webVars, demo, controller, interfaces, sockets>>

\* no controller, no interface, no socket, no call
RemoteInit ==
  /\ controller = NoController /\ interfaces = <<>> /\ sockets = <<>>
  /\ rc = IdleCall

(* ------------------------------------------------------------------ *)
(* Web dashboard (src/human-interface/web/app.py)                      *)
(*                                                                     *)
(* The update thread, the command worker and the handlers of requests  *)
(* and events run as threads over the two globals robot_state and      *)
(* control_commands; a step of the model is what one thread does       *)
(* between two points where another thread can run.  Of robot_state    *)
(* the model keeps joint_angles; an angle is a whole number of noise   *)
(* steps.                                                              *)
(* ------------------------------------------------------------------ *)
\* lines 23 and 149: six joint angles
NumAngles == 6

\* np.pi (line 151), in noise steps
PiSteps == 2

\* the samples of np.random.normal(0, 0.01) (line 150), in noise steps
Noise == {-1, 0, 1}

\* np.clip(x, lo, hi)
clip(x, lo, hi) == IF x < lo THEN lo ELSE IF x > hi THEN hi ELSE x

\* variant: the worker takes the newest command
PopLast(q) == [command |-> q[Len(q)], rest |-> SubSeq(q, 1, Len(q) - 1)]

\* line 175: control_commands.pop(0)
PopFirst(q) == [command |-> q[1], rest |-> Tail(q)]

\* line 55: not data
NoData(data) == data.type = "None" \/ data.items = <<>>

\* passes of the loop of update_robot_state
MaxPasses == 1

\* joint_control events
MaxEvents == 1

\* GET /api/robot/state requests and subscribe_state events
MaxReads == 1

\* POST /api/robot/command requests
MaxRequests == 3

\* the handlers of POST /api/robot/command that can run at a time
Requests == {1, 2}

\* the data of a joint_control event: <<v>> is the member v, <<>> a member
\* that is missing (data.get gives None); joint_id 6 is no index of the list
JointIds == {<<>>, <<0>>, <<6>>}

EventAngles == {<<>>, <<PiSteps>>, <<PiSteps + 1>>}

\* what request.get_json() gives (line 53): None, an empty object, an
\* array, and objects with and without "type" and "parameters"
RequestData ==
  { NoneValue, PyDict(<<>>), PyList(<< <<"0", "stop">> >>),
    PyDict(<< <<"type", "move">>, <<"parameters", "{\"x\": 1}">> >>),
    PyDict(<< <<"type", "stop">> >>),
    PyDict(<< <<"parameters", "{}">> >>) }

\* a handler of POST /api/robot/command that is not running
IdleRequest ==
  [pc |-> "idle", data |-> NoneValue, id |-> 0, response |-> "none",
   raised |-> "none"]

\* the threads before they start and the handlers before any request; upd:
\* the update thread, at joint i, with the value tmp it has loaded; jc: the
\* handler of joint_control; delivered: flips with every response of
\* /api/robot/state and every state_update sent; accepted, emitted, processed:
\* the ids of the requests whose command was appended, broadcast, popped
IdleWeb ==
  [upd |-> [pc |-> "load_add", i |-> 0, tmp |-> 0, passes |-> 0],
   jc |-> [pc |-> "idle", joint_id |-> <<>>, angle |-> <<>>,
           raised |-> "none"],
   events |-> 0, reads |-> 0, delivered |-> FALSE,
   http |-> [r \in Requests |-> IdleRequest],
   worker |-> [pc |-> "test",
               command |-> [type |-> "None", parameters |-> "{}", request |-> 0]],
   nreq |-> 0, accepted |-> <<>>, emitted |-> <<>>, processed |-> <<>>]

\* lines 22-32: the globals when the module is loaded
WebInit ==
  /\ robot_state = [joint_angles |-> [i \in 1..NumAngles |-> 0]]
  /\ control_commands = <<>>
  /\ web = IdleWeb

otherVars ==
  <<objects, dh_params, num_joints, heap, fr, alone, planners, pl,
    controller, interfaces, sockets, rc, demo>>

\* lines 150 and 151, first half: the thread loads joint_angles[i]
UpdateLoad ==
  /\ "update_robot_state" \in objects
  /\ web.upd.pc \in {"load_add", "load_clip"}
  /\ web' = [web EXCEPT
               !.upd.tmp = robot_state.joint_angles[web.upd.i + 1],
               !.upd.pc = IF web.upd.pc = "load_add" THEN "store_add"
                                                     ELSE "store_clip"]
  /\ UNCHANGED <<otherVars, robot_state, control_commands>>

\* line 150, second half: the value loaded plus the noise is stored
UpdateAdd ==
  /\ web.upd.pc = "store_add"
  /\ \E noise \in Noise :
       robot_state' = [robot_state EXCEPT
                         !.joint_angles[web.upd.i + 1] = web.upd.tmp + noise]
  /\ web' = [web EXCEPT !.upd.pc = "load_clip"]
  /\ UNCHANGED <<otherVars, control_commands>>

\* line 151, second half: the value loaded is clipped and stored; after
\* the last joint the thread goes on to line 164
UpdateClip ==
  /\ web.upd.pc = "store_clip"
  /\ robot_state' = [robot_state EXCEPT
                       !.joint_angles[web.upd.i + 1] =
                          clip(web.upd.tmp, -PiSteps, PiSteps)]
  /\ web' = IF web.upd.i + 1 < NumAngles
              THEN [web EXCEPT !.upd.pc = "load_add", !.upd.i = @ + 1]
              ELSE [web EXCEPT !.upd.pc = "emit"]
  /\ UNCHANGED <<otherVars, control_commands>>

\* lines 164-166: state_update is broadcast with robot_state, then the
\* thread sleeps and starts its next pass
UpdateEmit ==
  /\ web.upd.pc = "emit"
  /\ web' = [web EXCEPT
               !.delivered = ~@,
               !.upd = [pc |-> IF web.upd.passes + 1 < MaxPasses
                                 THEN "load_add" ELSE "stopped",
                        i |-> 0, tmp |-> 0, passes |-> web.upd.passes + 1]]
  /\ UNCHANGED <<otherVars, robot_state, control_commands>>

\* lines 125-130: a joint_control event; the angle is stored as it came
\* when both members are there, and the list raises IndexError on an index
\* it does not have
JointControl ==
  /\ "update_robot_state" \in objects
  /\ web.jc.pc \in {"idle", "done"} /\ web.events < MaxEvents
  /\ \E joint_id \in JointIds, angle \in EventAngles :
       LET jc == [pc |-> "done", joint_id |-> joint_id, angle |-> angle,
                  raised |-> "none"]
       IN IF joint_id = <<>> \/ angle = <<>>
            THEN /\ web' = [web EXCEPT !.events = @ + 1, !.jc = jc]
                 /\ robot_state' = robot_state
            ELSE IF joint_id[1] + 1 \notin 1..NumAngles
              THEN /\ web' = [web EXCEPT
                                !.events = @ + 1,
                                !.jc = [jc EXCEPT !.raised = "IndexError"]]
                   /\ robot_state' = robot_state
              ELSE /\ web' = [web EXCEPT !.events = @ + 1,
                                         !.jc = [jc EXCEPT !.pc = "broadcast"]]
                   /\ robot_state' = [robot_state EXCEPT
                                        !.joint_angles[joint_id[1] + 1] = angle[1]]
  /\ UNCHANGED <<otherVars, control_commands>>

\* lines 133-140: control_ack, then state_update is broadcast with
\* robot_state
JointControlBroadcast ==
  /\ web.jc.pc = "broadcast"
  /\ web' = [web EXCEPT !.delivered = ~@, !.jc.pc = "done"]
  /\ UNCHANGED <<otherVars, robot_state, control_commands>>

\* lines 41-47 and 116-119: a GET /api/robot/state or a subscribe_state
\* event is answered with robot_state
GetRobotState ==
  /\ "update_robot_state" \in objects
  /\ web.reads < MaxReads
  /\ web' = [web EXCEPT !.reads = @ + 1, !.delivered = ~@]
  /\ UNCHANGED <<otherVars, robot_state, control_commands>>

\* lines 53-59: a POST /api/robot/command arrives with data; with no data
\* the error is returned, and data.get raises AttributeError on an array
PostCommand ==
  /\ "process_control_commands" \in objects
  /\ web.nreq < MaxRequests
  /\ \E r \in Requests, data \in RequestData :
       /\ web.http[r].pc \in {"idle", "done"}
       /\ web' = [web EXCEPT
                    !.nreq = @ + 1,
                    !.http[r] =
                       IF NoData(data)
                         THEN [IdleRequest EXCEPT
                                 !.pc = "done", !.data = data, !.id = web.nreq + 1,
                                 !.response = "error: No data provided"]
                       ELSE IF data.type # "dict"
                         THEN [IdleRequest EXCEPT
                                 !.pc = "done", !.data = data, !.id = web.nreq + 1,
                                 !.raised = "AttributeError"]
                       ELSE [IdleRequest EXCEPT
                               !.pc = "append", !.data = data,
                               !.id = web.nreq + 1]]
  /\ UNCHANGED <<otherVars, robot_state, control_commands>>

\* lines 62-66: the command is appended; request stands for its timestamp
CommandAppend ==
  \E r \in Requests :
    /\ web.http[r].pc = "append"
    /\ control_commands' =
         Append(control_commands,
                [type |-> get(web.http[r].data.items, "type", "None"),
                 parameters |-> get(web.http[r].data.items, "parameters", "{}"),
                 request |-> web.http[r].id])
    /\ web' = [web EXCEPT !.http[r].pc = "emit",
                          !.accepted = Append(@, web.http[r].id)]
    /\ UNCHANGED <<otherVars, robot_state>>

\* lines 69-77: the command is broadcast and the success is returned
CommandEmit ==
  \E r \in Requests :
    /\ web.http[r].pc = "emit"
    /\ web' = [web EXCEPT !.http[r].pc = "done",
                          !.http[r].response = "success",
                          !.emitted = Append(@, web.http[r].id)]
    /\ UNCHANGED <<otherVars, robot_state, control_commands>>

\* line 174 and 181: the worker tests the queue, and sleeps when it is empty
WorkerTest ==
  /\ "process_control_commands" \in objects
  /\ web.worker.pc = "test"
  /\ web' = [web EXCEPT !.worker.pc = IF control_commands # <<>> THEN "pop"
                                                                  ELSE "test"]
  /\ UNCHANGED <<otherVars, robot_state, control_commands>>

\* lines 175-181: the worker pops a command, prints it and sleeps
WorkerPop ==
  /\ web.worker.pc = "pop"
  /\ control_commands' = PopFirst(control_commands).rest
  /\ web' = [web EXCEPT
               !.worker = [pc |-> "test",
                           command |-> PopFirst(control_commands).command],
               !.processed = Append(@, PopFirst(control_commands).command.request)]
  /\ UNCHANGED <<otherVars, robot_state>>

(* ------------------------------------------------------------------ *)
(* Pick and place                                                      *)
(* (src/development-tools/examples/robotics/pick_and_place_demo.py)    *)
(*                                                                     *)
(* Positions are in twentieths of a metre.  The lines 59, 85 and 87    *)
(* are read as the print calls they stand for; as the file is, they    *)
(* are unterminated and Python compiles none of it.                    *)
(* ------------------------------------------------------------------ *)
\* lines 37-41
home_position == <<6, 0, 8>>

pick_approach == <<8, 4, 5>>

pick_position == <<8, 4, 3>>

place_approach == <<8, -4, 5>>

place_position == <<8, -4, 3>>

\* line 34: TrajectoryPlanner(max_velocity=0.5, max_acceleration=0.3)
DemoPlanner == [max_velocity |-> <<1, 2>>, max_acceleration |-> <<3, 10>>]

\* line 78: time_horizon=2.0
DemoHorizon == 2

\* a move to target, the gripper closed or opened
MoveTo(target) == [kind |-> "move", target |-> target, close |-> FALSE]

Grip(close) == [kind |-> "grip", target |-> <<>>, close |-> close]

\* lines 114-169: the nine steps of execute_pick_and_place
Steps ==
  <<MoveTo(pick_approach), MoveTo(pick_position), Grip(TRUE),
    MoveTo(pick_approach), MoveTo(place_approach), MoveTo(place_position),
    Grip(FALSE), MoveTo(place_approach), MoveTo(home_position)>>

\* what self.robot.inverse_kinematics(target_pose) returns (line 71; lines
\* 100, 110 and 112 of robot_kinematics.py): a joint vector or None
Solutions == {"array", "None"}

RECURSIVE RunPlan(_, _)
\* plan_trajectory run to its end on frame f
RunPlan(self, f) ==
  CASE f.pc = "pl_entry" -> RunPlan(self, PlanEntryOp(self, f))
    [] f.pc = "pl_alloc" -> RunPlan(self, PlanAllocOp(self, f))
    [] f.pc = "pl_sample" -> RunPlan(self, PlanSampleOp(self, f))
    [] OTHER -> f

\* lines 77-79: self.planner.plan_trajectory(start_pos, end_pos,
\* time_horizon=2.0)
plan_trajectory(self, start_pos, end_pos, time_horizon) ==
  RunPlan(self, [IdlePlan EXCEPT !.pc = "pl_entry",
                                 !.start_pos = start_pos, !.end_pos = end_pos,
                                 !.time_horizon = time_horizon]).result

\* no call made.  step: the steps of execute_pick_and_place done; log: the
\* steps done by the call; planned: the plan_trajectory calls of the call;
\* walked: the samples current_position was set to; before: the demo's
\* fields when the call was made
IdleDemo ==
  [pc |-> "idle", op |-> "none", target |-> <<>>, close |-> FALSE,
   step |-> 0, solution |-> "None", log |-> <<>>, planned |-> 0,
   walked |-> <<>>, result |-> "none", outcome |-> "none",
   raised |-> "none",
   before |-> [current_position |-> <<>>, gripper_closed |-> FALSE],
   ncalls |-> 0]

\* lines 22-45: PickAndPlaceDemo()
DemoInit ==
  demo = [current_position |-> home_position, gripper_closed |-> FALSE,
          call |-> IdleDemo]

\* the call returns value
DemoReturns(d, value) ==
  [d EXCEPT !.call.pc = "done", !.call.result = value,
            !.call.outcome = "returned"]

\* the exception e leaves the call
DemoRaises(d, e) ==
  [d EXCEPT !.call.pc = "done", !.call.outcome = "raised", !.call.raised = e]

\* lines 92-107: control_gripper(close)
control_gripper(d, close) == [d EXCEPT !.gripper_closed = close]

RECURSIVE ExecuteHead(_)
\* execute_pick_and_place with d.call.step steps done, up to its next
\* move: line 172 after the last step, a gripper step done at once
ExecuteHead(d) ==
  IF d.call.step = Len(Steps) THEN DemoReturns(d, "True")
  ELSE IF Steps[d.call.step + 1].kind = "grip"
    THEN ExecuteHead([control_gripper(d, Steps[d.call.step + 1].close) EXCEPT
                        !.call.step = @ + 1,
                        !.call.log = Append(@, Steps[d.call.step + 1])])
    ELSE [d EXCEPT !.call.pc = "ik",
                   !.call.target = Steps[d.call.step + 1].target]

\* move_to_position returned success: the caller gets it (line 87), and
\* execute_pick_and_place tests it and goes on or returns False
MoveReturned(d, success) ==
  IF d.call.op = "move_to_position"
    THEN DemoReturns(d, IF success THEN "True" ELSE "False")
  ELSE IF ~success THEN DemoReturns(d, "False")
  ELSE ExecuteHead([d EXCEPT !.call.step = @ + 1,
                             !.call.log = Append(@, Steps[d.call.step + 1])])

\* lines 82-87 with the position samples: current_position is set to each
\* in turn
Walked(d, positions) ==
  MoveReturned([d EXCEPT !.current_position = positions[Len(positions)],
                         !.call.walked = positions], TRUE)

\* lines 77-87 with the result r of plan_trajectory
Planned(d, r) ==
  IF r.kind # "tuple" THEN DemoRaises(d, r.kind)
  ELSE Walked(d, r.val.position_trajectory)

\* calls of the caller on the demo
MaxDemoCalls == 3

DemoCalls ==
  {[IdleDemo EXCEPT !.op = "execute_pick_and_place"]}
  \cup {[IdleDemo EXCEPT !.op = "move_to_position", !.target = t] :
          t \in {home_position, pick_approach, pick_position,
                 place_approach, place_position}}
  \cup {[IdleDemo EXCEPT !.op = "control_gripper", !.close = c] :
          c \in BOOLEAN}

demoOthers ==
  <<objects, dh_params, num_joints, heap, fr, alone, planners, pl,
    controller, interfaces, sockets, rc, robot_state, control_commands, web>>

\* the caller calls execute_pick_and_place, move_to_position or
\* control_gripper (lines 251-272)
DemoCall ==
  /\ "PickAndPlaceDemo" \in objects
  /\ demo.call.pc \in {"idle", "done"} /\ demo.call.ncalls < MaxDemoCalls
  /\ \E c \in DemoCalls :
       demo' = [demo EXCEPT
                  !.call = [c EXCEPT
                              !.pc = "entry", !.ncalls = demo.call.ncalls + 1,
                              !.before =
                                 [current_position |-> demo.current_position,
                                  gripper_closed |-> demo.gripper_closed]]]
  /\ UNCHANGED demoOthers

\* the call begins
DemoEntry ==
  /\ demo.call.pc = "entry"
  /\ demo' = CASE demo.call.op = "control_gripper" ->
                    DemoReturns(control_gripper(demo, demo.call.close), "None")
               [] demo.call.op = "move_to_position" ->
                    [demo EXCEPT !.call.pc = "ik"]
               [] OTHER -> ExecuteHead(demo)
  /\ UNCHANGED demoOthers

\* lines 61-73 and 88-90: the target pose, inverse_kinematics, the test
MoveSolve ==
  /\ demo.call.pc = "ik"
  /\ \E solution \in Solutions :
       demo' = IF solution = "None"
                 THEN MoveReturned([demo EXCEPT !.call.solution = solution],
                                   FALSE)
                 ELSE [demo EXCEPT !.call.solution = solution,
                                   !.call.pc = "plan"]
  /\ UNCHANGED demoOthers

\* lines 77-87: the trajectory is planned and walked
MovePlan ==
  /\ demo.call.pc = "plan"
  /\ demo' = Planned([demo EXCEPT !.call.planned = @ + 1],
                     plan_trajectory(DemoPlanner, demo.current_position,
                                     demo.call.target, DemoHorizon))
  /\ UNCHANGED demoOthers

(* ------------------------------------------------------------------ *)
(* Specifications                                                      *)
(* ------------------------------------------------------------------ *)
\* lines 15-23: the instance is constructed from a chain in C; the caller
\* holds one array, in V
KinInit(C, V) ==
  /\ dh_params \in C
  /\ num_joints = Len(dh_params)
  /\ \E v \in V :
       heap = [a \in Addrs |-> IF a = ArgAddr THEN v ELSE FreeCell]
  /\ fr = [t \in Callers |-> IdleFrame]
  /\ alone = [t \in Callers |->
                [dh |-> dh_params, n |-> Len(dh_params),
                 heap |-> [a \in {ArgAddr} \cup LocalAddr(t) |-> FreeCell],
                 f |-> IdleFrame]]

\* lines 155-164: the planners are constructed
PlanInit ==
  /\ planners = Planners
  /\ pl = IdlePlan

vars == <<objects, dh_params, num_joints, heap, fr, alone, planners, pl,
          controller, interfaces, sockets, rc,
          robot_state, control_commands, web, demo>>

\* the program constructs a RobotKinematics or the two planners
Init ==
  \/ /\ objects = {"RobotKinematics"}
     /\ \E dh \in Chains : KinInit({dh}, ArgVectors(Len(dh)))
     /\ PlanInit /\ RemoteInit /\ WebInit /\ DemoInit
  \/ /\ objects = {"TrajectoryPlanner"}
     /\ KinInit({<< <<1, 0, 0, 0>> >>}, {Zeros(1)})
     /\ PlanInit /\ RemoteInit /\ WebInit /\ DemoInit

\* one caller: it makes a call, then the same call again, MaxCalls in all
Next ==
  \/ CallFK(1, MaxCalls) /\ AloneBegin(1)
  \/ CallJacobian(1, MaxCalls) /\ AloneBegin(1)
  \/ CallIK(1, MaxCalls, Targets(dh_params, heap[ArgAddr])) /\ AloneBegin(1)
  \/ Repeat(1, MaxCalls) /\ UNCHANGED alone
  \/ KinStepOf(1) /\ UNCHANGED alone
  \/ CallPlan(MaxCalls, PlanArgs, Durations)
  \/ RepeatPlan(MaxCalls)
  \/ PlanEntry
  \/ PlanAlloc
  \/ PlanSample

Spec == Init /\ [][Next]_vars

\* the chain and the targets of the concurrent callers
ConcChains == { << <<1, 0, 0, 0>> >> }

\* the arrays the concurrent callers share: one of the chain's length, one
\* too long
ConcVectors == {Vec(<<1>>), Zeros(2)}

ConcTargets(t) ==
  IF t = 1
    THEN {FarTarget, PoseOf(dh_params, Zeros(num_joints))}
    ELSE {NaNTarget}

\* two threads share the instance and the caller's array; each makes one
\* call, and their steps interleave.  With each step of a call, the same
\* call run alone takes its step.
InitConc ==
  /\ objects = {"RobotKinematics"} /\ KinInit(ConcChains, ConcVectors)
  /\ PlanInit /\ RemoteInit /\ WebInit /\ DemoInit

NextConc ==
  \/ \E t \in Callers : CallFK(t, 1) /\ AloneBegin(t)
  \/ \E t \in Callers : CallJacobian(t, 1) /\ AloneBegin(t)
  \/ \E t \in Callers : CallIK(t, 1, ConcTargets(t)) /\ AloneBegin(t)
  \/ \E t \in Callers : KinStepOf(t) /\ AloneStep(t)

SpecConc == InitConc /\ [][NextConc]_vars

\* joint angles of the forward-kinematics callers range over
\* -MaxTurns..MaxTurns quarter turns: [-pi, pi] at 2
MaxTurns == 2

\* chains for forward_kinematics and compute_jacobian alone: chains whose
\* DH parameters collapse to the identity, the chains above, and the first
\* three joints of a six-joint arm, (0, pi/2, 4, 0), (3, 0, 0, 0),
\* (0, pi/2, 0, pi/2), lengths in tenths
FKChains ==
  Chains \cup
  { << <<0, 0, 0, 0>> >>,
    << <<0, 0, 0, 0>>, <<0, 0, 0, 0>> >>,
    << <<0, 1, 4, 0>>, <<3, 0, 0, 0>>, <<0, 1, 0, 1>> >> }

\* every joint vector of length n on the grid, one shorter and one longer
FKVectors(n) ==
  {Vec(q) : q \in [1..n -> (-MaxTurns)..MaxTurns]} \cup {Zeros(n - 1), Zeros(n + 1)}

\* one caller of forward_kinematics and compute_jacobian
InitFK ==
  /\ objects = {"RobotKinematics"}
  /\ \E dh \in FKChains : KinInit({dh}, FKVectors(Len(dh)))
  /\ PlanInit /\ RemoteInit /\ WebInit /\ DemoInit

NextFK ==
  \/ CallFK(1, MaxCalls) /\ AloneBegin(1)
  \/ CallJacobian(1, MaxCalls) /\ AloneBegin(1)
  \/ Repeat(1, MaxCalls) /\ UNCHANGED alone
  \/ ForwardKinematics(1) /\ UNCHANGED alone
  \/ ComputeJacobian(1) /\ UNCHANGED alone

SpecFK == InitFK /\ [][NextFK]_vars

\* one caller of the remote interface layer; the server and the network
\* answer, fail and refuse as they like
InitRemote ==
  /\ objects = {"RobotController"}
  /\ KinInit({<< <<1, 0, 0, 0>> >>}, {Zeros(1)})
  /\ PlanInit /\ RemoteInit /\ WebInit /\ DemoInit

NextRemote ==
  \/ RemoteCall
  \/ RemoteEntry
  \/ Connect
  \/ Close
  \/ Send
  \/ Recv
  \/ SendCommandReturn

SpecRemote == InitRemote /\ [][NextRemote]_vars

\* the dashboard's state: the update thread with joint_control events and
\* readers of the state
InitWeb ==
  /\ objects = {"update_robot_state"}
  /\ KinInit({<< <<1, 0, 0, 0>> >>}, {Zeros(1)})
  /\ PlanInit /\ RemoteInit /\ WebInit /\ DemoInit

NextWeb ==
  \/ UpdateLoad
  \/ UpdateAdd
  \/ UpdateClip
  \/ UpdateEmit
  \/ JointControl
  \/ JointControlBroadcast
  \/ GetRobotState

SpecWeb == InitWeb /\ [][NextWeb]_vars

\* the dashboard's command queue: the worker with the handlers of
\* POST /api/robot/command; it shares no state with the other threads
InitQueue ==
  /\ objects = {"process_control_commands"}
  /\ KinInit({<< <<1, 0, 0, 0>> >>}, {Zeros(1)})
  /\ PlanInit /\ RemoteInit /\ WebInit /\ DemoInit

NextQueue ==
  \/ PostCommand
  \/ CommandAppend
  \/ CommandEmit
  \/ WorkerTest
  \/ WorkerPop

SpecQueue == InitQueue /\ [][NextQueue]_vars

\* one caller of a PickAndPlaceDemo
InitDemo ==
  /\ objects = {"PickAndPlaceDemo"}
  /\ KinInit({<< <<1, 0, 0, 0>> >>}, {Zeros(1)})
  /\ PlanInit /\ RemoteInit /\ WebInit /\ DemoInit

NextDemo ==
  \/ DemoCall
  \/ DemoEntry
  \/ MoveSolve
  \/ MovePlan

SpecDemo == InitDemo /\ [][NextDemo]_vars

(* ------------------------------------------------------------------ *)
(* Properties                                                          *)
(* ------------------------------------------------------------------ *)
\* the guess of caller t's inverse_kinematics call has the chain's length
GuessFits(t) ==
  fr[t].arg = NoneRef \/ Len(heap[fr[t].arg].v) = num_joints

IKFailures == {"failed-no-convergence", "failed-singular"}

\* C1: an inverse_kinematics call with a guess of length N runs iterations
\* 0..99 only, evaluates the error at most 100 times, counts each iteration
\* once (the counter equals the updates applied and is never reset), and
\* ends converged, failed-no-convergence or failed-singular.
C1_Terminates ==
  \A t \in Callers :
    (fr[t].op = "ik" /\ GuessFits(t)) =>
      /\ fr[t].iteration < max_iterations
      /\ fr[t].nerr <= max_iterations
      /\ fr[t].pc = "ik_measure" =>
           fr[t].nerr = fr[t].iteration /\ fr[t].nupd = fr[t].iteration
      /\ fr[t].pc \in {"ik_jacobian", "ik_update"} =>
           fr[t].nerr = fr[t].iteration + 1 /\ fr[t].nupd = fr[t].iteration
      /\ fr[t].pc = "done" =>
           /\ fr[t].outcome \in {"converged"} \cup IKFailures
           /\ fr[t].outcome = "failed-no-convergence" =>
                fr[t].nerr = max_iterations /\ fr[t].nupd = max_iterations

\* a call from the default guess that used all 100 iterations
C1_Witness ==
  /\ fr[1].op = "ik" /\ fr[1].pc = "done" /\ fr[1].arg = NoneRef
  /\ fr[1].outcome = "failed-no-convergence" /\ fr[1].nerr = max_iterations

\* C2: a returned joint vector is the vector the last error evaluation
\* measured; its error, computed again from it, is the error that passed
\* the tolerance test; nothing else is ever returned as an array.
C2_ReturnsMeasured ==
  \A t \in Callers :
    (fr[t].op = "ik" /\ fr[t].pc = "done" /\ fr[t].result.kind = "array") =>
      /\ fr[t].outcome = "converged"
      /\ fr[t].result.val = fr[t].measured
      /\ fr[t].nupd = fr[t].nerr - 1
      /\ ErrorVector(forward_kinematics(dh_params, num_joints,
                                        fr[t].result.val).pose,
                     fr[t].target) = fr[t].error_vector
      /\ BelowTolerance(fr[t].error_vector)

\* a vector returned after at least one update
C2_Witness ==
  /\ fr[1].op = "ik" /\ fr[1].pc = "done" /\ fr[1].result.kind = "array"
  /\ fr[1].nupd > 0

\* C3, as stated: a call that fails because the pseudo-inverse cannot be
\* formed reports something else than a call that runs out of iterations.
C3_Distinct ==
  \A t \in Callers :
    fr[t].outcome = "failed-singular" =>
      fr[t].result # ExhaustedReturn(heap, fr[t])

\* C3, amended: a call that fails because the pseudo-inverse cannot be
\* formed reports exactly what a call that runs out of iterations reports,
\* None; only a converged call reports anything else.
C3_SameNone ==
  \A t \in Callers :
    /\ fr[t].outcome = "failed-singular" =>
         fr[t].result = ExhaustedReturn(heap, fr[t])
    /\ fr[t].outcome = "failed-no-convergence" =>
         fr[t].result = SingularReturn(heap, fr[t])
    /\ fr[t].outcome = "converged" => fr[t].result.kind = "array"

\* a call ended by LinAlgError from the pseudo-inverse
C3_Witness ==
  /\ fr[1].op = "ik" /\ fr[1].pc = "done"
  /\ fr[1].outcome = "failed-singular" /\ fr[1].result.kind = "None"

\* every array given to plan_trajectory has 6 components
SixVectors ==
  /\ Len(pl.start_pos) = 6 /\ Len(pl.end_pos) = 6
  /\ pl.start_vel.given => Len(pl.start_vel.v) = 6
  /\ pl.end_vel.given => Len(pl.end_vel.v) = 6

\* C4, as stated: every plan_trajectory call with a duration <= 0 fails,
\* before any sample is generated.
C4_FailsNonPositive ==
  (pl.pc = "done" /\ pl.time_horizon <= 0) =>
    pl.outcome = "raised" /\ pl.nsamples = 0

\* C4, amended: the singular-matrix failure (LinAlgError) happens exactly
\* when the duration is 0 and the arrays have 6 components; a call with a
\* negative duration and such arrays returns its samples; every failure,
\* and every call with duration 0, ends before any sample is generated.
C4_SingularAtZero ==
  pl.pc = "done" =>
    /\ pl.result.kind = "LinAlgError" <=> (pl.time_horizon = 0 /\ SixVectors)
    /\ (pl.time_horizon < 0 /\ SixVectors) => pl.outcome = "returned"
    /\ pl.time_horizon = 0 => pl.outcome = "raised"
    /\ pl.outcome = "raised" =>
         pl.nsamples = 0 /\ pl.result.val = NoSamples

\* a call with duration 0 ended by LinAlgError
C4_Witness ==
  /\ pl.pc = "done" /\ pl.time_horizon = 0
  /\ pl.result.kind = "LinAlgError" /\ pl.nsamples = 0

\* C5: a failed inverse_kinematics call returns None and no array; a failed
\* plan_trajectory call returns no samples.
C5_AllOrNothing ==
  /\ \A t \in Callers :
       fr[t].outcome \in IKFailures =>
         fr[t].result.kind = "None" /\ fr[t].result.val = FreeCell
  /\ pl.outcome = "raised" =>
       pl.result.kind # "tuple" /\ pl.result.val = NoSamples

\* a call that fails after 100 updates of its joint vector
C5_Witness ==
  /\ fr[1].op = "ik" /\ fr[1].outcome = "failed-no-convergence"
  /\ fr[1].nupd = max_iterations /\ fr[1].result.kind = "None"

\* C6: a call ends with ValueError only when the vector's length is not N;
\* forward_kinematics then ends with it and has composed no transform, and
\* on a vector of length N it returns the pose of all N transforms.
C6_DimensionMismatch ==
  \A t \in Callers :
    fr[t].pc = "done" =>
      /\ (fr[t].result.kind = "ValueError" /\ fr[t].arg # NoneRef) =>
           Len(heap[fr[t].arg].v) # num_joints
      /\ fr[t].op = "fk" =>
           IF Len(heap[fr[t].arg].v) # num_joints
             THEN fr[t].result.kind = "ValueError" /\ fr[t].composed = 0
             ELSE fr[t].result.kind = "pose" /\ fr[t].composed = num_joints

\* forward_kinematics ended by ValueError on a longer vector
C6_Witness ==
  /\ fr[1].op = "fk" /\ fr[1].pc = "done"
  /\ fr[1].result.kind = "ValueError"
  /\ Len(heap[fr[1].arg].v) > num_joints

\* C7: from the first call on, the chain and the caller's array are what
\* they were at that call, and the planners what they were constructed as;
\* a call made again with the same arguments on the same object returns
\* what it returned before.
C7_NoRetainedState ==
  /\ \A t \in Callers :
       /\ fr[t].ncalls > 0 =>
            /\ dh_params = alone[t].dh /\ num_joints = alone[t].n
            /\ heap[ArgAddr] = alone[t].heap[ArgAddr]
       /\ (fr[t].pc = "done" /\ fr[t].prev.kind # "none") =>
            fr[t].result = fr[t].prev
  /\ planners = Planners
  /\ (pl.pc = "done" /\ pl.prev.kind # "none" /\ pl.prev_self = pl.self) =>
       pl.result = pl.prev

\* a second inverse_kinematics call on the caller's array, which updated
\* its joint vector, has returned
C7_Witness ==
  /\ fr[1].op = "ik" /\ fr[1].pc = "done" /\ fr[1].arg = ArgAddr
  /\ fr[1].nupd > 0 /\ fr[1].prev.kind # "none"

\* C8: under every interleaving, a call that has ended has ended as the same
\* call run alone ends, with the same result, and the chain is what it was
\* when the call started.
C8_NoLocking ==
  \A t \in Callers :
    /\ fr[t].ncalls > 0 => dh_params = alone[t].dh /\ num_joints = alone[t].n
    /\ fr[t].pc = "done" =>
         /\ alone[t].f.pc = "done"
         /\ fr[t].result = alone[t].f.result
         /\ fr[t].outcome = alone[t].f.outcome

\* both calls have ended, each ran while the other was in progress, and one
\* of them updated its joint vector
C8_Witness ==
  /\ \A t \in Callers : fr[t].pc = "done" /\ fr[t].overlap
  /\ fr[1].op = "ik" /\ fr[1].arg = ArgAddr /\ fr[1].nupd > 0
  /\ fr[2].op = "ik"

\* C9: a call made again on a planner with other limits returns what it
\* returned before, and a call with 6-component arrays and a duration other
\* than 0 returns its samples whatever their velocities.
C9_LimitsUnused ==
  pl.pc = "done" =>
    /\ (pl.prev.kind # "none" /\ planners[pl.prev_self] # planners[pl.self]) =>
         pl.result = pl.prev
    /\ (SixVectors /\ pl.time_horizon # 0) => pl.result.kind = "tuple"

\* a trajectory returned by both planners that has a velocity sample above
\* the max_velocity of the planner returning it
C9_Witness ==
  /\ pl.pc = "done" /\ pl.prev.kind = "tuple" /\ pl.result.kind = "tuple"
  /\ planners[pl.prev_self] # planners[pl.self]
  /\ \E k \in 1..num_points : \E c \in 1..6 :
       SampleAbove(pl.result.val.velocity_trajectory[k][c],
                   planners[pl.self].max_velocity)

\* C10, as stated: a call with a duration > 0 returns 100 time points, 100
\* position samples and 100 velocity samples, the time points strictly
\* increasing from 0 to the duration.
C10_HundredSamples ==
  (pl.pc = "done" /\ pl.time_horizon > 0) =>
    /\ pl.result.kind = "tuple"
    /\ Len(pl.result.val.time_points) = 100
    /\ Len(pl.result.val.position_trajectory) = 100
    /\ Len(pl.result.val.velocity_trajectory) = 100
    /\ pl.result.val.time_points[1] = <<0, 1>>
    /\ pl.result.val.time_points[100] = <<pl.time_horizon, 1>>
    /\ \A k \in 1..99 :
         RatLess(pl.result.val.time_points[k], pl.result.val.time_points[k + 1])

\* the sample s is the number n
SampleIs(s, n) == s.x = <<n * s.u, 0, 0, 0, 0, 0>>

\* C11, as stated, for the calls that return samples: with a duration > 0
\* the first position sample is start_pos and the last is end_pos, the first
\* velocity sample is start_vel and the last is end_vel (zeros when omitted).
C11_Endpoints ==
  (pl.pc = "done" /\ pl.time_horizon > 0 /\ pl.result.kind = "tuple") =>
    \A c \in 1..Len(pl.start_pos) :
      /\ SampleIs(pl.result.val.position_trajectory[1][c], pl.start_pos[c])
      /\ SampleIs(pl.result.val.position_trajectory[num_points][c], pl.end_pos[c])
      /\ SampleIs(pl.result.val.velocity_trajectory[1][c],
                  VelOrZeros(pl.start_vel, pl.start_pos)[c])
      /\ SampleIs(pl.result.val.velocity_trajectory[num_points][c],
                  VelOrZeros(pl.end_vel, pl.start_pos)[c])

\* caller t's call is inverse_kinematics(forward_kinematics(q), q), q the
\* caller's array, of the chain's length
RoundTrip(t) ==
  /\ fr[t].op = "ik" /\ fr[t].arg = ArgAddr
  /\ Len(heap[ArgAddr].v) = num_joints
  /\ fr[t].target = PoseOf(dh_params, heap[ArgAddr])

\* C12: inverse_kinematics(forward_kinematics(q), initial_guess=q) never
\* goes on to a Jacobian or an update; it ends converged after one error
\* evaluation and returns a vector equal to q, whose pose is the target.
C12_RoundTrip ==
  \A t \in Callers :
    RoundTrip(t) =>
      /\ fr[t].pc \notin {"ik_jacobian", "ik_update"}
      /\ fr[t].pc = "done" =>
           /\ fr[t].outcome = "converged"
           /\ fr[t].result = [kind |-> "array", val |-> heap[ArgAddr]]
           /\ fr[t].nerr = 1 /\ fr[t].nupd = 0
           /\ PoseOf(dh_params, fr[t].result.val) = fr[t].target

\* a round trip from a bent two-joint vector has converged
C12_Witness ==
  /\ RoundTrip(1) /\ fr[1].pc = "done" /\ fr[1].outcome = "converged"
  /\ num_joints = 2 /\ heap[ArgAddr] # Zeros(2)
  /\ fr[1].target # PoseOf(dh_params, Zeros(2))

RECURSIVE ChainProduct(_, _, _)
\* T_i * (T_(i+1) * (... * (T_N * I))), T_k the link transform of joint k
\* at theta_k = q[k] + theta_offset_k
ChainProduct(dh, q, i) ==
  IF i > Len(dh) THEN Eye4
  ELSE MatMul(dh_transform(dh[i][1], dh[i][2], dh[i][3],
                           <<q.v[i][1] + dh[i][4], q.v[i][2]>>),
              ChainProduct(dh, q, i + 1))

\* caller t's call has ended and was made with a vector of the chain's length
FitsDone(t, op) ==
  /\ fr[t].op = op /\ fr[t].pc = "done"
  /\ Len(heap[fr[t].arg].v) = num_joints

\* C13: forward_kinematics on a vector of length N returns the product
\* T_1 * T_2 * ... * T_N of the N link transforms in chain order, each at
\* theta_i = joint_vector[i] + theta_offset_i, N transforms composed; on a
\* chain whose DH parameters are all zero it returns the identity at the
\* zero vector.
C13_ChainedProduct ==
  \A t \in Callers :
    FitsDone(t, "fk") =>
      /\ fr[t].result = [kind |-> "pose",
                         val |-> Pose(ChainProduct(dh_params, heap[fr[t].arg], 1))]
      /\ fr[t].composed = num_joints
      /\ ( /\ \A i \in 1..num_joints : dh_params[i] = <<0, 0, 0, 0>>
           /\ heap[fr[t].arg] = Zeros(num_joints) )
           => fr[t].result.val = Pose(Eye4)

\* forward_kinematics has returned on the three-joint chain, whose link
\* transforms do not commute, at a vector with every joint turned
C13_Witness ==
  /\ FitsDone(1, "fk") /\ num_joints = 3 /\ fr[1].result.kind = "pose"
  /\ heap[fr[1].arg] = Vec(<<1, 2, -1>>)

\* R^T * R = I for the rotation block R of the 4x4 integer matrix M
Orthonormal(M) ==
  \A i, j \in 1..3 :
    M[1][i] * M[1][j] + M[2][i] * M[2][j] + M[3][i] * M[3][j]
      = (IF i = j THEN 1 ELSE 0)

Moved(q, i, k) == [q EXCEPT !.v[i] = <<@[1], @[2] + k>>]

\* C15: compute_jacobian on a vector of length N calls forward_kinematics
\* exactly 2N times: for joint 1, 2, ... N in turn, with joint i increased
\* by epsilon and then with joint i decreased by epsilon, the other joints
\* unchanged; it returns a matrix of N columns of 6 entries.
C15_TwoPerJoint ==
  \A t \in Callers :
    FitsDone(t, "jac") =>
      /\ fr[t].nfk = 2 * num_joints /\ Len(fr[t].evals) = 2 * num_joints
      /\ \A i \in 1..num_joints :
           /\ fr[t].evals[2 * i - 1] = Moved(heap[fr[t].arg], i, 1)
           /\ fr[t].evals[2 * i] = Moved(heap[fr[t].arg], i, -1)
      /\ fr[t].result.kind = "matrix"
      /\ Len(fr[t].result.val.cols) = num_joints
      /\ \A i \in 1..num_joints : Len(fr[t].result.val.cols[i]) = 6

\* compute_jacobian has returned on the three-joint chain
C15_Witness ==
  /\ FitsDone(1, "jac") /\ num_joints = 3 /\ fr[1].result.kind = "matrix"
  /\ fr[1].nfk = 6 /\ heap[fr[1].arg] = Vec(<<1, 2, -1>>)

\* the pseudo-inverse of caller t's Jacobian cannot be formed (lines 107-109)
PinvFails(t) ==
  PinvUpdate(heap, fr[t].joint_angles, fr[t].jacobian, fr[t].error_vector).raised
    # "none"

\* the step of caller t at line 107 when the pseudo-inverse cannot be
\* formed: the call ends failed-singular in that step, with no update, no
\* further evaluation and no new iteration, on the vector last measured
AbortStep(t) ==
  (fr[t].pc = "ik_update" /\ PinvFails(t) /\ fr'[t] # fr[t]) =>
    /\ fr'[t].pc = "done" /\ fr'[t].outcome = "failed-singular"
    /\ fr'[t].nupd = fr[t].nupd /\ fr'[t].iteration = fr[t].iteration
    /\ fr'[t].nfk = fr[t].nfk /\ fr'[t].njac = fr[t].njac
    /\ fr'[t].nerr = fr[t].nerr /\ fr'[t].ncalls = fr[t].ncalls
    /\ heap[fr[t].joint_angles] = fr[t].measured
    /\ fr'[t].measured = fr[t].measured
    /\ heap'[ArgAddr] = heap[ArgAddr]

\* a call that ended failed-singular in iteration k made k updates, k + 1
\* error evaluations and k + 1 Jacobians, and nothing after
AbortedCounts(t) ==
  fr[t].outcome = "failed-singular" =>
    /\ fr[t].pc = "done"
    /\ fr[t].nupd = fr[t].iteration
    /\ fr[t].nerr = fr[t].iteration + 1 /\ fr[t].njac = fr[t].iteration + 1
    /\ fr[t].nfk = (fr[t].iteration + 1) * (1 + 2 * num_joints)

\* C16: when the pseudo-inverse cannot be formed, the call ends in that
\* same step as failed-singular: the joint vector is not updated, no
\* forward-kinematics or Jacobian evaluation follows, the iteration counter
\* does not advance and the engine starts no new attempt.
C16_AbortsAtOnce ==
  /\ [](\A t \in Callers : AbortedCounts(t))
  /\ [][\A t \in Callers : AbortStep(t)]_vars

\* a call ended in its second iteration by a Jacobian holding NaN
C16_Witness ==
  /\ fr[1].op = "ik" /\ fr[1].pc = "done" /\ fr[1].outcome = "failed-singular"
  /\ fr[1].iteration = 1 /\ fr[1].nupd = 1 /\ fr[1].njac = 2
  /\ fr[1].measured.nan

\* at line 107 the Jacobian has been computed once in this iteration, by
\* 2N evaluations around the vector whose error was just measured, which
\* is still the joint vector; at line 103 it has not been computed yet
JacobianAtMeasured(t) ==
  /\ fr[t].pc = "ik_jacobian" =>
       /\ fr[t].njac = fr[t].iteration /\ fr[t].nerr = fr[t].iteration + 1
       /\ heap[fr[t].joint_angles] = fr[t].measured
  /\ fr[t].pc = "ik_update" =>
       /\ fr[t].njac = fr[t].iteration + 1 /\ fr[t].nerr = fr[t].iteration + 1
       /\ heap[fr[t].joint_angles] = fr[t].measured
       /\ Len(fr[t].evals) = 2 * num_joints
       /\ \A i \in 1..num_joints :
            /\ fr[t].evals[2 * i - 1] = Moved(fr[t].measured, i, 1)
            /\ fr[t].evals[2 * i] = Moved(fr[t].measured, i, -1)

\* the steps of an iteration of caller t: measuring and computing the
\* Jacobian leave the joint vector alone; the update adds
\* learning_rate * pinv(jacobian) @ error_vector to it, whatever the result
OneUpdate(t) ==
  LET ja == fr[t].joint_angles
      x == PinvApply(fr[t].jacobian.cols, fr[t].error_vector.e)
  IN /\ (fr[t].pc \in {"ik_measure", "ik_jacobian"} /\ fr'[t].pc # "done") =>
          heap'[ja] = heap[ja]
     /\ (fr[t].pc = "ik_update" /\ fr'[t].pc = "ik_measure") =>
          /\ fr'[t].nupd = fr[t].nupd + 1
          /\ fr'[t].iteration = fr[t].iteration + 1
          /\ IF fr[t].error_vector.nan \/ heap[ja].nan
               THEN heap'[ja].nan
               ELSE /\ ~heap'[ja].nan
                    /\ \A i \in 1..num_joints :
                         heap'[ja].v[i] =
                           <<heap[ja].v[i][1] + StepOf(x, i), heap[ja].v[i][2]>>

\* C17: in every iteration that has not converged the Jacobian is computed
\* once, at the vector whose error was just measured, and the joint vector
\* then changes only by joint_vector += 0.1 * pinv(jacobian) * error_vector,
\* with the same factor in every iteration and no clamping of the result.
C17_SingleUpdate ==
  /\ [](\A t \in Callers : JacobianAtMeasured(t))
  /\ [][\A t \in Callers : OneUpdate(t)]_vars

\* an update has moved a joint beyond a quarter turn from zero
C17_Witness ==
  /\ fr[1].op = "ik" /\ fr[1].pc = "ik_measure" /\ fr[1].nupd > 0
  /\ \E i \in 1..num_joints : Abs(heap[fr[1].joint_angles].v[i][1]) > 1

\* the Python value r is a dict with the member key
HasKey(r, key) ==
  r.type = "dict" /\ \E i \in 1..Len(r.items) : r.items[i][1] = key

\* C18, as stated: a call of get_robot_status, move_robot /
\* perform_movement, run_task_sequence or execute_robot_task made while the
\* controller's interface is None does not raise; it returns a dict with an
\* "error" member (run_task_sequence: a list).
C18_StructuredError ==
  ( /\ rc.pc = "done" /\ ~rc.had_interface
    /\ rc.op \in {"get_robot_status", "move_robot", "perform_movement",
                  "run_task_sequence", "execute_robot_task"} ) =>
    /\ rc.outcome = "returned"
    /\ rc.op # "run_task_sequence" => HasKey(rc.result, "error")

\* C19: no exception of send_command leaves the call (the only exception a
\* call ends with is the controller's own AttributeError); a send_command
\* that finds the interface not connected returns the not-connected error
\* having sent and received nothing; an exception caught while sending,
\* receiving or decoding is returned as {success: False, error: str(e)};
\* and the interface (its connected flag and its socket) is what it was
\* when the call was made.
C19_NeverRaises ==
  /\ rc.outcome = "raised" => rc.raised = "AttributeError"
  /\ rc.pc \in {"send", "recv"} =>
       rc.sc.connected /\ interfaces[controller.interface].connected
  /\ rc.pc \in {"send", "recv", "return"} => interfaces = rc.before
  /\ rc.pc = "return" =>
       /\ ~rc.sc.connected =>
            /\ rc.response = NotConnected /\ rc.caught = "none"
            /\ Len(rc.sent) = rc.sc.sent /\ rc.nrecv = rc.sc.nrecv
       /\ rc.caught # "none" =>
            /\ rc.sc.connected
            /\ rc.response =
                 PyDict(<< <<"success", "False">>, <<"error", rc.caught>> >>)

\* send_command on a connected interface is about to return the error of a
\* response that was not JSON
C19_Witness ==
  /\ rc.pc = "return" /\ rc.caught = "JSONDecodeError" /\ rc.nrecv = 1
  /\ interfaces[controller.interface].connected
  /\ HasKey(rc.response, "error")

\* the result r of a task is successful, as line 212 tests it
Successful(r) == r.type = "dict" /\ Truthy(get(r.items, "success", "False"))

\* the text execute_task sends for the task
TaskText(task) ==
  json_dumps([command |-> "execute_task",
              params |-> << <<"task_name", get(task, "name", "")>>,
                            <<"task_params", get(task, "params", "{}")>> >>]).text

\* C20: run_task_sequence sends the tasks in list order, one result per
\* task; every result but the last is successful; the list it returns is
\* the results of a prefix of the tasks, the whole list or a prefix ending
\* with the first unsuccessful result; nothing is sent after that result.
C20_StopsAtFirstFailure ==
  rc.op = "run_task_sequence" =>
    /\ Len(rc.results) <= Len(rc.tasks)
    /\ \A k \in 1..(Len(rc.results) - 1) : Successful(rc.results[k])
    /\ Len(rc.sent) <= Len(rc.results) + 1 /\ Len(rc.sent) <= Len(rc.tasks)
    /\ \A k \in 1..Len(rc.sent) : rc.sent[k] = TaskText(rc.tasks[k])
    /\ (rc.pc = "done" /\ rc.outcome = "returned") =>
         /\ rc.result = PyList(rc.results)
         /\ Len(rc.sent) <= Len(rc.results)
         /\ Len(rc.sent) >= Len(rc.results) - 1
         /\ \/ Len(rc.results) = Len(rc.tasks)
            \/ /\ Len(rc.results) > 0
               /\ ~Successful(rc.results[Len(rc.results)])

\* a list of three tasks has ended at its second task, which failed on the
\* robot
C20_Witness ==
  /\ rc.op = "run_task_sequence" /\ rc.pc = "done" /\ rc.outcome = "returned"
  /\ Len(rc.tasks) = 3 /\ rc.tasks[1] # rc.tasks[2]
  /\ Len(rc.results) = 2 /\ Len(rc.sent) = 2 /\ rc.nrecv = 2
  /\ ~Successful(rc.results[2])

\* the guess caller t's inverse_kinematics call started from (lines 75-78)
GuessOf(t) ==
  IF fr[t].arg = NoneRef THEN Zeros(num_joints) ELSE heap[fr[t].arg]

\* the counts of caller t's inverse_kinematics call: the error is evaluated
\* before the update of the same iteration; a returned vector has had at
\* most 99 updates, one fewer than error evaluations; running out means 100
\* error evaluations and 100 updates; a guess within tolerance is returned
\* after one forward-kinematics evaluation and no Jacobian
CheckedFirst(t) ==
  fr[t].op = "ik" =>
    /\ fr[t].pc = "ik_update" => fr[t].nupd = fr[t].nerr - 1
    /\ (fr[t].pc = "done" /\ fr[t].result.kind = "array") =>
         /\ fr[t].nupd <= max_iterations - 1
         /\ fr[t].nupd = fr[t].nerr - 1 /\ fr[t].njac = fr[t].nupd
    /\ (fr[t].pc = "done" /\ fr[t].outcome = "failed-no-convergence") =>
         /\ fr[t].nerr = max_iterations /\ fr[t].nupd = max_iterations
         /\ fr[t].njac = max_iterations
         /\ fr[t].nfk = max_iterations * (1 + 2 * num_joints)
    /\ (fr[t].pc = "done" /\ fr[t].outcome = "converged" /\ fr[t].nerr = 1) =>
         /\ fr[t].nupd = 0 /\ fr[t].njac = 0 /\ fr[t].nfk = 1
         /\ fr[t].result.val = GuessOf(t)

\* the 100th update of caller t: the call ends in that step as
\* failed-no-convergence, and the vector it produced is not measured
LastUntested(t) ==
  ( /\ fr[t].op = "ik" /\ fr[t].pc = "ik_update"
    /\ fr[t].iteration = max_iterations - 1
    /\ ~PinvFails(t) /\ fr'[t] # fr[t] ) =>
      /\ fr'[t].pc = "done" /\ fr'[t].outcome = "failed-no-convergence"
      /\ fr'[t].result.kind = "None"
      /\ fr'[t].nupd = fr[t].nupd + 1
      /\ fr'[t].nerr = fr[t].nerr /\ fr'[t].nfk = fr[t].nfk
      /\ fr'[t].measured = fr[t].measured

\* C21: in inverse_kinematics the convergence check precedes the update in
\* every iteration: a call that returns a joint vector has applied at most
\* 99 updates, a call that runs out of iterations has made exactly 100 error
\* evaluations and 100 updates, the vector of the 100th update is never
\* tested, and a guess already within tolerance is returned with no
\* Jacobian evaluation.
C21_CheckBeforeUpdate ==
  /\ [](\A t \in Callers : CheckedFirst(t))
  /\ [][\A t \in Callers : LastUntested(t)]_vars

\* a call with a guess of the caller's that was within tolerance at once
C21_Witness ==
  /\ fr[1].op = "ik" /\ fr[1].pc = "done" /\ fr[1].outcome = "converged"
  /\ fr[1].arg # NoneRef /\ fr[1].nerr = 1 /\ fr[1].njac = 0
  /\ fr[1].result.val = heap[fr[1].arg]

\* interface x is connected exactly while the socket it holds has been
\* opened by a connect of its own and not closed by a disconnect since
ConnectedWhileOpen(x) ==
  x.connected <=> (x.websocket # NoSocket /\ sockets[x.websocket].open)

\* the calls on the controller's interface as they end: a connect that
\* failed on a fresh interface leaves it fresh; a disconnect leaves the
\* flag False; a send_command that found the flag False returns the
\* not-connected error, having sent and received nothing
InterfaceCallEnds ==
  rc.pc = "done" /\ rc.outcome = "returned" /\ controller.interface # NoInterface =>
    LET x == interfaces[controller.interface]
    IN /\ ( /\ rc.op = "connect" /\ rc.result = PyBool(FALSE)
            /\ rc.before[controller.interface] = NewInterface ) =>
              x = NewInterface
       /\ (rc.op = "initialize_robot" /\ rc.result = PyBool(FALSE)) =>
            x = NewInterface
       /\ rc.op \in {"disconnect", "shutdown_robot"} => ~x.connected
       /\ (rc.op = "send_command" /\ ~rc.sc.connected) =>
            /\ rc.result = NotConnected
            /\ rc.sent = <<>> /\ rc.nrecv = 0
            /\ interfaces = rc.before

\* the steps that change the flag of interface i or start a send_command:
\* the flag turns True only in the step of a connect that opened a socket,
\* which the interface then holds; it turns False only in the step of a
\* disconnect; send_command on an interface whose flag is False goes to its
\* return with the not-connected error and leaves sockets and interfaces
FlagSteps(i) ==
  /\ (~interfaces[i].connected /\ interfaces'[i].connected) =>
       /\ rc.pc = "connect" /\ rc'.result = PyBool(TRUE)
       /\ Len(sockets') = Len(sockets) + 1
       /\ interfaces'[i].websocket = Len(sockets')
  /\ (interfaces[i].connected /\ ~interfaces'[i].connected) =>
       /\ rc.pc = "close" /\ rc.op \in {"disconnect", "shutdown_robot"}
       /\ ~sockets'[interfaces[i].websocket].open
  /\ ( /\ rc.pc = "entry" /\ rc.op = "send_command" /\ rc'.pc # "entry"
       /\ i = controller.interface /\ ~interfaces[i].connected ) =>
         /\ rc'.pc = "return" /\ rc'.response = NotConnected
         /\ sockets' = sockets /\ interfaces' = interfaces

\* C22: for any sequence of connect, disconnect and send_command calls on a
\* RobotInterface, connected is True only between a successful connect and
\* the next disconnect: a failed connect on a fresh interface leaves
\* connected False and websocket None, disconnect sets connected False, and
\* after a disconnect every send_command returns the not-connected error
\* without touching the socket.
C22_ConnectedFlag ==
  /\ [](/\ \A i \in 1..Len(interfaces) : ConnectedWhileOpen(interfaces[i])
        /\ InterfaceCallEnds)
  /\ [][\A i \in 1..Len(interfaces) : FlagSteps(i)]_vars

\* a send_command refused on an interface that was connected and then
\* disconnected: it still holds the socket, which is closed
C22_Witness ==
  /\ rc.op = "send_command" /\ rc.pc = "done" /\ rc.result = NotConnected
  /\ interfaces[controller.interface].websocket # NoSocket
  /\ ~sockets[interfaces[controller.interface].websocket].open

\* every socket was opened through initialize_robot
OpenedByInitialize ==
  \A s \in 1..Len(sockets) : sockets[s].by = "initialize_robot"

\* C23, as stated: when shutdown_robot has completed, every connection that
\* was opened through initialize_robot on the global controller is closed,
\* however many initialize_robot calls came before.
C23_AllClosed ==
  (rc.op = "shutdown_robot" /\ rc.pc = "done" /\ OpenedByInitialize) =>
    \A s \in 1..Len(sockets) : ~sockets[s].open

\* every joint angle of robot_state lies in [-pi, pi]
AnglesInRange ==
  \A i \in 1..NumAngles :
    /\ robot_state.joint_angles[i] >= -PiSteps
    /\ robot_state.joint_angles[i] <= PiSteps

\* C24, as stated: every state of robot_state that a response of
\* /api/robot/state or a state_update event delivers has all its joint
\* angles in [-pi, pi], whatever the interleaving of the update thread with
\* joint_control events.
C24_ReadableInRange ==
  [][(web'.delivered # web.delivered) => AnglesInRange]_vars

\* the ids of the requests whose commands are in the queue, in queue order
QueuedIds ==
  [k \in 1..Len(control_commands) |-> control_commands[k].request]

\* the number of times id occurs in the sequence s
Occurrences(s, id) == Cardinality({k \in 1..Len(s) : s[k] = id})

\* the queue holds the commands appended and not yet popped, in the order
\* they were appended; a handler that returned success appended and
\* broadcast its command once; a handler that ended otherwise, and one that
\* has not reached line 62, appended and broadcast nothing
QueueIsFifo ==
  /\ web.processed \o QueuedIds = web.accepted
  /\ \A id \in 1..web.nreq :
       /\ Occurrences(web.accepted, id) <= 1
       /\ Occurrences(web.emitted, id) <= Occurrences(web.accepted, id)
  /\ \A r \in Requests :
       LET h == web.http[r]
       IN /\ (h.pc = "done" /\ h.response = "success") =>
               /\ Occurrences(web.accepted, h.id) = 1
               /\ Occurrences(web.emitted, h.id) = 1
          /\ (h.pc = "append" \/ (h.pc = "done" /\ h.response # "success")) =>
               /\ Occurrences(web.accepted, h.id) = 0
               /\ Occurrences(web.emitted, h.id) = 0
          /\ (h.pc = "done" /\ h.id > 0 /\ NoData(h.data)) =>
               h.response = "error: No data provided"
          /\ h.pc \in {"append", "emit"} => ~NoData(h.data)

\* the steps on the queue: only the worker shortens it, by its first
\* command, which joins the commands processed; a handler lengthens it by
\* the command of its request, at the end; the step that takes a request
\* leaves the queue and the broadcasts alone
QueueSteps ==
  /\ Len(control_commands') < Len(control_commands) =>
       /\ web.worker.pc = "pop"
       /\ control_commands' = Tail(control_commands)
       /\ web'.worker.command = control_commands[1]
       /\ web'.processed = Append(web.processed, control_commands[1].request)
       /\ web'.accepted = web.accepted
  /\ Len(control_commands') > Len(control_commands) =>
       \E r \in Requests :
         /\ web.http[r].pc = "append"
         /\ control_commands' =
              Append(control_commands,
                     [type |-> get(web.http[r].data.items, "type", "None"),
                      parameters |-> get(web.http[r].data.items, "parameters", "{}"),
                      request |-> web.http[r].id])
         /\ web'.accepted = Append(web.accepted, web.http[r].id)
         /\ web'.processed = web.processed
  /\ web'.nreq # web.nreq =>
       /\ control_commands' = control_commands
       /\ web'.emitted = web.emitted /\ web'.accepted = web.accepted

\* C25: every command accepted by POST /api/robot/command is appended to
\* control_commands exactly once and removed by the worker exactly once, in
\* the order in which the commands were appended (FIFO), under any
\* interleaving of the handlers with the worker; a request with no data
\* returns an error and enqueues and broadcasts nothing.
C25_FifoOnce ==
  /\ []QueueIsFifo
  /\ [][QueueSteps]_vars

\* the worker has processed two commands, of which the one whose request
\* came second was appended first; a request with no data got its error
C25_Witness ==
  /\ web.processed = <<2, 1>> /\ control_commands = <<>>
  /\ \E r \in Requests :
       /\ web.http[r].pc = "done" /\ web.http[r].id = 3
       /\ web.http[r].response = "error: No data provided"

\* the step of execute_pick_and_place that closes the gripper, and the one
\* that opens it (lines 130 and 155)
CloseStep == CHOOSE k \in 1..Len(Steps) : Steps[k] = Grip(TRUE)

OpenStep == CHOOSE k \in 1..Len(Steps) : Steps[k] = Grip(FALSE)

\* C26, as stated: execute_pick_and_place does its steps in the fixed order;
\* it returns True only after all nine steps, the gripper then open and
\* current_position the home position; it returns False at the first move
\* that failed, having done no later step; and whenever it returns, the
\* gripper is closed only if it stopped between the step that closes the
\* gripper and the step that opens it.
C26_FixedOrder ==
  ( /\ demo.call.op = "execute_pick_and_place" /\ demo.call.pc = "done"
    /\ demo.call.outcome = "returned" ) =>
      /\ demo.call.log = SubSeq(Steps, 1, Len(demo.call.log))
      /\ demo.call.result = "True" =>
           /\ demo.call.log = Steps /\ ~demo.gripper_closed
           /\ demo.current_position = home_position
      /\ demo.call.result = "False" =>
           /\ Len(demo.call.log) < Len(Steps)
           /\ Steps[Len(demo.call.log) + 1].kind = "move"
           /\ demo.call.solution = "None"
      /\ demo.gripper_closed =>
           Len(demo.call.log) \in CloseStep..(OpenStep - 1)

====
